---- MODULE Spec2Model ----
(***************************************************************************)
(* Model of simple_rdbms: typed values and coercion (datatypes.py), the    *)
(* B-tree and the index manager (index.py), schema and catalog             *)
(* (schema.py), table storage and the database (storage.py) and the        *)
(* statement executor (executor.py).                                       *)
(***************************************************************************)
EXTENDS Integers, Sequences, FiniteSets, TLC

VARIABLES catalog, tables, last, hist

vars == <<catalog, tables, last, hist>>

(***************************************************************************)
(* Bounds of the model.                                                    *)
(***************************************************************************)
\* no insert is attempted once a table's next_row_id exceeds this
MaxRowId == 3
\* number of value lists of one INSERT statement
MaxValueLists == 2

\* the rows of the table a query statement runs against
MaxRows == 3

\* the rows of the two tables a join runs against
MaxLeftRows == 2

MaxRightRows == 2

\* the B-tree under test: its order, its keys, the row_ids and the number
\* of inserts made into it
MaxOrder == 4

MaxKey == 3

MaxTreeRowId == 2

MaxInserts == 4

\* the tokens of the text handed to the parser, EOF not counted
MaxTokens == 6

(***************************************************************************)
(* Python lists: 0-based insert and pop, first-occurrence remove.          *)
(***************************************************************************)
ListInsert(s, i, x) == SubSeq(s, 1, i) \o <<x>> \o SubSeq(s, i + 1, Len(s))

ListPop(s, i) == SubSeq(s, 1, i) \o SubSeq(s, i + 2, Len(s))

ListContains(s, x) == \E j \in 1..Len(s) : s[j] = x

SeqToSet(q) == {q[i] : i \in 1..Len(q)}

ListRemove(s, x) ==
    LET j == CHOOSE k \in 1..Len(s) : s[k] = x /\ \A m \in 1..(k - 1) : s[m] # x
    IN  ListPop(s, j - 1)

(***************************************************************************)
(* Values.  A value is null, an int, a float, a str or a bool.  Floats     *)
(* are kept as a count of halves in v (1.5 is v = 3), so that              *)
(* float.is_integer() and int(float) are computed, not assumed.            *)
(***************************************************************************)
Null == [t |-> "null", v |-> 0, s |-> ""]

IntV(n) == [t |-> "int", v |-> n, s |-> ""]

RealV(h) == [t |-> "real", v |-> h, s |-> ""]

TextV(str) == [t |-> "text", v |-> 0, s |-> str]

BoolV(b) == [t |-> "bool", v |-> IF b THEN 1 ELSE 0, s |-> ""]

IsNumeric(a) == a.t \in {"int", "real", "bool"}

\* the number a Python int, float or bool stands for, in halves
NumVal(a) == IF a.t = "real" THEN a.v ELSE 2 * a.v

\* code-point order of the strings the model can hold
TextOrd(str) ==
    CASE str = "1" -> 1
      [] str = "1.0" -> 2
      [] str = "1.5" -> 3
      [] str = "2" -> 4
      [] str = "2.0" -> 5
      [] str = "3" -> 6
      [] str = "3.0" -> 7
      [] str = "False" -> 8
      [] str = "True" -> 9
      [] str = "a" -> 10
      [] str = "b" -> 11
      [] OTHER -> 12

\* Python ==
PyEq(a, b) ==
    IF a.t = "null" \/ b.t = "null" THEN a.t = b.t
    ELSE IF IsNumeric(a) /\ IsNumeric(b) THEN NumVal(a) = NumVal(b)
    ELSE IF a.t = "text" /\ b.t = "text" THEN a.s = b.s
    ELSE FALSE

\* Python <  (operands of one domain; an index holds keys of one column)
PyLt(a, b) ==
    IF IsNumeric(a) /\ IsNumeric(b) THEN NumVal(a) < NumVal(b)
    ELSE IF a.t = "text" /\ b.t = "text" THEN TextOrd(a.s) < TextOrd(b.s)
    ELSE FALSE

\* str.lower() on the identifiers and strings of the model
Lower(str) ==
    CASE str = "ID" -> "id"
      [] str = "T" -> "t"
      [] str = "L" -> "l"
      [] str = "W" -> "w"
      [] str = "True" -> "true"
      [] str = "False" -> "false"
      [] OTHER -> str

\* int(str): the parsed integer, or -1 for ValueError
IntOfText(str) ==
    CASE str = "1" -> 1
      [] str = "2" -> 2
      [] str = "3" -> 3
      [] OTHER -> -1

\* float(str) in halves, or -1 for ValueError
RealOfText(str) ==
    CASE str = "1" -> 2
      [] str = "1.0" -> 2
      [] str = "1.5" -> 3
      [] str = "2" -> 4
      [] str = "2.0" -> 4
      [] str = "3" -> 6
      [] str = "3.0" -> 6
      [] OTHER -> -1

\* str(value) for a non-text value
StrOf(a) ==
    CASE a.t = "bool" -> IF a.v = 1 THEN "True" ELSE "False"
      [] a.t = "int" /\ a.v = 1 -> "1"
      [] a.t = "int" /\ a.v = 2 -> "2"
      [] a.t = "int" /\ a.v = 3 -> "3"
      [] a.t = "real" /\ a.v = 2 -> "1.0"
      [] a.t = "real" /\ a.v = 3 -> "1.5"
      [] a.t = "real" /\ a.v = 4 -> "2.0"
      [] a.t = "real" /\ a.v = 6 -> "3.0"
      [] OTHER -> "b"

(***************************************************************************)
(* datatypes.py                                                            *)
(***************************************************************************)
Coerced(a) == [ok |-> TRUE, value |-> a]

CoerceFail == [ok |-> FALSE, value |-> Null]

\* the INTEGER branch without its bool guard (bool is a subclass of int)
CoerceIntegerNoBoolGuard(value) ==
    IF value.t \in {"int", "bool"} THEN Coerced(value)
    ELSE IF value.t = "real" /\ value.v % 2 = 0 THEN Coerced(IntV(value.v \div 2))
    ELSE IF value.t = "text"
         THEN IF IntOfText(value.s) >= 0 THEN Coerced(IntV(IntOfText(value.s)))
              ELSE CoerceFail
    ELSE CoerceFail

CoerceInteger(value) ==
    IF value.t = "bool" THEN CoerceFail
    ELSE IF value.t = "int" THEN Coerced(value)
    ELSE IF value.t = "real" /\ value.v % 2 = 0 THEN Coerced(IntV(value.v \div 2))
    ELSE IF value.t = "text"
         THEN IF IntOfText(value.s) >= 0 THEN Coerced(IntV(IntOfText(value.s)))
              ELSE CoerceFail
    ELSE CoerceFail

CoerceText(value) ==
    IF value.t = "text" THEN Coerced(value) ELSE Coerced(TextV(StrOf(value)))

CoerceReal(value) ==
    IF value.t = "bool" THEN CoerceFail
    ELSE IF value.t \in {"int", "real"} THEN Coerced(RealV(NumVal(value)))
    ELSE IF value.t = "text"
         THEN IF RealOfText(value.s) >= 0 THEN Coerced(RealV(RealOfText(value.s)))
              ELSE CoerceFail
    ELSE CoerceFail

CoerceBoolean(value) ==
    IF value.t = "bool" THEN Coerced(value)
    ELSE IF value.t = "int" THEN Coerced(BoolV(value.v # 0))
    ELSE IF value.t = "text" /\ Lower(value.s) \in {"true", "1", "yes", "on"}
         THEN Coerced(BoolV(TRUE))
    ELSE IF value.t = "text" /\ Lower(value.s) \in {"false", "0", "no", "off"}
         THEN Coerced(BoolV(FALSE))
    ELSE CoerceFail

\* ok = FALSE stands for DataTypeError
validate_and_coerce(value, data_type) ==
    IF value.t = "null" THEN Coerced(Null)
    ELSE CASE data_type = "INTEGER" -> CoerceInteger(value)
           [] data_type = "TEXT" -> CoerceText(value)
           [] data_type = "REAL" -> CoerceReal(value)
           [] data_type = "BOOLEAN" -> CoerceBoolean(value)
           [] OTHER -> CoerceFail

(***************************************************************************)
(* index.py: the B-tree.  A node is [leaf, keys, values, children]; a      *)
(* tree is [order, root, size].                                            *)
(***************************************************************************)
BTreeNode(leaf) == [leaf |-> leaf, keys |-> <<>>, values |-> <<>>, children |-> <<>>]

BTree(order) ==
    [order |-> IF order > 3 THEN order ELSE 3, root |-> BTreeNode(TRUE), size |-> 0]

min_keys(bt) == (bt.order - 1) \div 2

max_keys(bt) == bt.order - 1

_compare(a, b) ==
    IF a.t = "null" /\ b.t = "null" THEN 0
    ELSE IF a.t = "null" THEN -1
    ELSE IF b.t = "null" THEN 1
    ELSE IF PyLt(a, b) THEN -1
    ELSE IF PyLt(b, a) THEN 1
    ELSE 0

\* while i >= 0 and compare(key, keys[i]) < 0: i -= 1   (i is 0-based)
RECURSIVE ScanDown(_, _, _)
ScanDown(keys, key, i) ==
    IF i >= 0 /\ _compare(key, keys[i + 1]) < 0 THEN ScanDown(keys, key, i - 1) ELSE i

\* while i < len(keys) and compare(key, keys[i]) > 0: i += 1   (i is 0-based)
RECURSIVE ScanUp(_, _, _)
ScanUp(keys, key, i) ==
    IF i < Len(keys) /\ _compare(key, keys[i + 1]) > 0 THEN ScanUp(keys, key, i + 1) ELSE i

_split_child(parent, index) ==
    LET child == parent.children[index + 1]
        mid == Len(child.keys) \div 2
        new_node == [leaf |-> child.leaf,
                     keys |-> SubSeq(child.keys, mid + 2, Len(child.keys)),
                     values |-> SubSeq(child.values, mid + 2, Len(child.values)),
                     children |-> IF child.leaf THEN <<>>
                                  ELSE SubSeq(child.children, mid + 2, Len(child.children))]
        left == [leaf |-> child.leaf,
                 keys |-> SubSeq(child.keys, 1, mid),
                 values |-> SubSeq(child.values, 1, mid),
                 children |-> IF child.leaf THEN child.children
                              ELSE SubSeq(child.children, 1, mid + 1)]
    IN  [parent EXCEPT
            !.keys = ListInsert(parent.keys, index, child.keys[mid + 1]),
            !.values = ListInsert(parent.values, index, child.values[mid + 1]),
            !.children = ListInsert([parent.children EXCEPT ![index + 1] = left],
                                    index + 1, new_node)]

RECURSIVE _insert_non_full(_, _, _, _)
_insert_non_full(maxk, node, key, row_id) ==
    LET AtLeaf(i) ==
            IF i >= 0 /\ _compare(key, node.keys[i + 1]) = 0
            THEN [node EXCEPT !.values[i + 1] = Append(@, row_id)]
            ELSE [node EXCEPT !.keys = ListInsert(@, i + 1, key),
                              !.values = ListInsert(@, i + 1, <<row_id>>)]
        Into(node2, c2) ==
            [node2 EXCEPT !.children[c2 + 1] =
                              _insert_non_full(maxk, node2.children[c2 + 1], key, row_id)]
        AfterSplit(node2, c) ==
            Into(node2, IF _compare(key, node2.keys[c + 1]) > 0 THEN c + 1 ELSE c)
        Inner(c) ==
            IF Len(node.children[c + 1].keys) = maxk
            THEN AfterSplit(_split_child(node, c), c)
            ELSE Into(node, c)
        At(i) == IF node.leaf THEN AtLeaf(i) ELSE Inner(i + 1)
    IN  At(ScanDown(node.keys, key, Len(node.keys) - 1))

\* an insert that never splits the root
BTreeInsertNoRootSplit(bt, key, row_id) ==
    [bt EXCEPT !.root = _insert_non_full(max_keys(bt), bt.root, key, row_id),
               !.size = bt.size + 1]

BTreeInsert(bt, key, row_id) ==
    LET root2 == IF Len(bt.root.keys) = max_keys(bt)
                 THEN _split_child([BTreeNode(FALSE) EXCEPT !.children = <<bt.root>>], 0)
                 ELSE bt.root
    IN  [bt EXCEPT !.root = _insert_non_full(max_keys(bt), root2, key, row_id),
                   !.size = bt.size + 1]

RECURSIVE _search(_, _)
_search(node, key) ==
    LET At(i) ==
            IF i < Len(node.keys) /\ _compare(key, node.keys[i + 1]) = 0
            THEN node.values[i + 1]
            ELSE IF node.leaf THEN <<>>
            ELSE _search(node.children[i + 1], key)
    IN  At(ScanUp(node.keys, key, 0))

BTreeSearch(bt, key) == _search(bt.root, key)

\* values[i].remove(row_id), popping the slot when its list empties
RemoveRowId(node, i, row_id) ==
    LET rest == ListRemove(node.values[i + 1], row_id)
    IN  IF Len(rest) = 0
        THEN [node EXCEPT !.keys = ListPop(@, i), !.values = ListPop(@, i)]
        ELSE [node EXCEPT !.values[i + 1] = rest]

\* the result is [deleted, node]
RECURSIVE _delete(_, _, _)
_delete(node, key, row_id) ==
    LET Below(i, r) ==
            [deleted |-> r.deleted, node |-> [node EXCEPT !.children[i + 1] = r.node]]
        At(i) ==
            IF /\ i < Len(node.keys)
               /\ _compare(key, node.keys[i + 1]) = 0
               /\ ListContains(node.values[i + 1], row_id)
            THEN [deleted |-> TRUE, node |-> RemoveRowId(node, i, row_id)]
            ELSE IF node.leaf THEN [deleted |-> FALSE, node |-> node]
            ELSE Below(i, _delete(node.children[i + 1], key, row_id))
    IN  At(ScanUp(node.keys, key, 0))

\* a delete that leaves the counter alone
BTreeDeleteKeepsSize(bt, key, row_id) ==
    LET Deleted(r) == [deleted |-> r.deleted, tree |-> [bt EXCEPT !.root = r.node]]
    IN  Deleted(_delete(bt.root, key, row_id))

BTreeDelete(bt, key, row_id) ==
    LET NewRoot(root) ==
            IF Len(root.keys) = 0 /\ ~root.leaf THEN root.children[1] ELSE root
        Deleted(r) ==
            [deleted |-> r.deleted,
             tree |-> [bt EXCEPT !.root = NewRoot(r.node),
                                 !.size = IF r.deleted THEN bt.size - 1 ELSE bt.size]]
    IN  Deleted(_delete(bt.root, key, row_id))

\* len(btree), which is also the truth value of a BTree object
BTreeLen(bt) == bt.size

\* key in btree
BTreeContains(bt, key) == Len(BTreeSearch(bt, key)) > 0

\* the result is the list of the (key, row_id) pairs appended to results; a
\* bound that is None is the null value
RECURSIVE _range_search(_, _, _)
_range_search(node, min_key, max_key) ==
    LET AboveMin(key) == min_key.t = "null" \/ _compare(key, min_key) >= 0
        BelowMax(key) == max_key.t = "null" \/ _compare(key, max_key) <= 0
        Child(c) == _range_search(node.children[c], min_key, max_key)
        Entries(i) ==
            [j \in 1..Len(node.values[i]) |-> <<node.keys[i], node.values[i][j]>>]
        KeyLoop[i \in 0..Len(node.keys)] ==
            IF i = 0 THEN <<>>
            ELSE KeyLoop[i - 1]
                     \o (IF ~node.leaf /\ AboveMin(node.keys[i]) THEN Child(i) ELSE <<>>)
                     \o (IF AboveMin(node.keys[i]) /\ BelowMax(node.keys[i])
                         THEN Entries(i) ELSE <<>>)
        LastChild ==
            IF /\ ~node.leaf
               /\ Len(node.children) > Len(node.keys)
               /\ \/ max_key.t = "null"
                  \/ /\ Len(node.keys) > 0
                     /\ _compare(node.keys[Len(node.keys)], max_key) <= 0
            THEN Child(Len(node.children))
            ELSE <<>>
    IN  KeyLoop[Len(node.keys)] \o LastChild

BTreeRangeSearch(bt, min_key, max_key) == _range_search(bt.root, min_key, max_key)

(***************************************************************************)
(* index.py: the index manager, a map lower-cased column name -> BTree.    *)
(***************************************************************************)
DefaultIndexOrder == 32

IM_create_index(indexes, column_name) ==
    IF Lower(column_name) \in DOMAIN indexes THEN indexes
    ELSE [c \in DOMAIN indexes \cup {Lower(column_name)} |->
            IF c \in DOMAIN indexes THEN indexes[c] ELSE BTree(DefaultIndexOrder)]

\* "index = self._indexes.get(name); if index:" is false for a missing index
\* and for a BTree whose __len__ is 0
IndexTruthy(indexes, column_name) ==
    /\ Lower(column_name) \in DOMAIN indexes
    /\ BTreeLen(indexes[Lower(column_name)]) # 0

\* the guard as "if index is not None"
IndexPresent(indexes, column_name) == Lower(column_name) \in DOMAIN indexes

IM_insert(indexes, column_name, key, row_id) ==
    IF IndexTruthy(indexes, column_name)
    THEN [indexes EXCEPT ![Lower(column_name)] = BTreeInsert(@, key, row_id)]
    ELSE indexes

IM_delete(indexes, column_name, key, row_id) ==
    IF IndexTruthy(indexes, column_name)
    THEN [indexes EXCEPT ![Lower(column_name)] = BTreeDelete(@, key, row_id).tree]
    ELSE indexes

\* [found, row_ids]; found = FALSE is the None result
IM_search(indexes, column_name, key) ==
    IF IndexTruthy(indexes, column_name)
    THEN [found |-> TRUE, row_ids |-> BTreeSearch(indexes[Lower(column_name)], key)]
    ELSE [found |-> FALSE, row_ids |-> <<>>]

(***************************************************************************)
(* exceptions.py: an error is its kind and the column or table it names.   *)
(***************************************************************************)
NoError == [kind |-> "none", name |-> ""]

Error(kind, name) == [kind |-> kind, name |-> name]

IsConstraintError(err) ==
    err.kind \in {"NotNullViolation", "PrimaryKeyViolation", "UniqueViolation"}

(***************************************************************************)
(* schema.py                                                               *)
(***************************************************************************)
\* Column without __post_init__: a primary key stays nullable
ColumnNoImplicit(name, data_type, primary_key, unique, not_null) ==
    [name |-> name, data_type |-> data_type, primary_key |-> primary_key,
     unique |-> unique \/ primary_key, not_null |-> not_null]

\* Column.__post_init__: a primary key is implicitly unique and not null
Column(name, data_type, primary_key, unique, not_null) ==
    [name |-> name, data_type |-> data_type, primary_key |-> primary_key,
     unique |-> unique \/ primary_key, not_null |-> not_null \/ primary_key]

TableSchema(name, columns) == [name |-> name, columns |-> columns]

ColumnKeys(schema) == {Lower(schema.columns[i].name) : i \in 1..Len(schema.columns)}

has_column(schema, name) == Lower(name) \in ColumnKeys(schema)

\* the _column_map entry: the last column of that lower-cased name
get_column(schema, name) ==
    LET i == CHOOSE k \in 1..Len(schema.columns) :
                /\ Lower(schema.columns[k].name) = Lower(name)
                /\ \A m \in (k + 1)..Len(schema.columns) :
                       Lower(schema.columns[m].name) # Lower(name)
    IN  schema.columns[i]

PrimaryKeyColumns(schema) ==
    {i \in 1..Len(schema.columns) : schema.columns[i].primary_key}

\* TableSchema.__post_init__ raises ValueError on a second primary key
SchemaValid(schema) == Cardinality(PrimaryKeyColumns(schema)) <= 1

UniqueColumns(schema) ==
    {Lower(schema.columns[i].name) : i \in {k \in 1..Len(schema.columns) : schema.columns[k].unique}}

(***************************************************************************)
(* Python dicts with insertion order: a sequence of <<key, value>> pairs   *)
(* with distinct keys.                                                     *)
(***************************************************************************)
DictKeys(d) == {d[i][1] : i \in 1..Len(d)}

DictHas(d, k) == k \in DictKeys(d)

DictIndex(d, k) == CHOOSE i \in 1..Len(d) : d[i][1] = k

\* d.get(k): None for a missing key
DictGet(d, k) == IF DictHas(d, k) THEN d[DictIndex(d, k)][2] ELSE Null

\* d[k] = v: an existing key keeps its place, a new key goes last
DictSet(d, k, v) ==
    IF DictHas(d, k) THEN [d EXCEPT ![DictIndex(d, k)] = <<k, v>>]
    ELSE Append(d, <<k, v>>)

\* {k.lower(): v for k, v in values.items()}
RECURSIVE NormalizeFrom(_, _, _)
NormalizeFrom(values, i, acc) ==
    IF i > Len(values) THEN acc
    ELSE NormalizeFrom(values, i + 1, DictSet(acc, Lower(values[i][1]), values[i][2]))

Normalize(values) == NormalizeFrom(values, 1, <<>>)

(***************************************************************************)
(* storage.py: Table.  rows is the _rows dict in iteration order, each     *)
(* entry a Row [row_id, data]; data maps lower-cased column names to       *)
(* values.                                                                 *)
(***************************************************************************)
RowIds(t) == {t.rows[i].row_id : i \in 1..Len(t.rows)}

RowIndex(t, row_id) == CHOOSE i \in 1..Len(t.rows) : t.rows[i].row_id = row_id

RowOf(t, row_id) == t.rows[RowIndex(t, row_id)]

\* the new row put before the others
RowsSetFront(rows, row) == <<row>> \o SelectSeq(rows, LAMBDA r : r.row_id # row.row_id)

\* self._rows[row_id] = row
RowsSet(rows, row) ==
    IF \E i \in 1..Len(rows) : rows[i].row_id = row.row_id
    THEN [i \in 1..Len(rows) |-> IF rows[i].row_id = row.row_id THEN row ELSE rows[i]]
    ELSE Append(rows, row)

\* self._rows.pop(row_id)
RowsPop(rows, row_id) == SelectSeq(rows, LAMBDA r : r.row_id # row_id)

\* the indexes Table.__init__ and Table.clear create: primary key first,
\* then the other unique columns
RECURSIVE CreateUniqueIndexes(_, _, _)
CreateUniqueIndexes(schema, i, indexes) ==
    IF i > Len(schema.columns) THEN indexes
    ELSE CreateUniqueIndexes(schema, i + 1,
            IF schema.columns[i].unique /\ ~schema.columns[i].primary_key
            THEN IM_create_index(indexes, schema.columns[i].name)
            ELSE indexes)

InitialIndexes(schema) ==
    LET pk == PrimaryKeyColumns(schema)
        none == [c \in {} |-> BTree(DefaultIndexOrder)]
        first == IF pk # {} THEN IM_create_index(none, schema.columns[CHOOSE i \in pk : TRUE].name)
                 ELSE none
    IN  CreateUniqueIndexes(schema, 1, first)

NewTable(schema) ==
    [schema |-> schema,
     rows |-> <<>>,
     next_row_id |-> 1,
     indexes |-> InitialIndexes(schema),
     unique_values |-> [c \in UniqueColumns(schema) |-> {}]]

\* the membership test answering "absent" for every value
InUniqueNone(t, col_name, value) == FALSE

\* value in self._unique_values[col]
InUnique(t, col_name, value) == \E x \in t.unique_values[col_name] : PyEq(x, value)

\* set.discard leaving the value in the set
SetDiscardNothing(S, value) == S

\* set.add and set.discard
SetAdd(S, value) == IF \E x \in S : PyEq(x, value) THEN S ELSE S \cup {value}

SetDiscard(S, value) == {x \in S : ~PyEq(x, value)}

\* Table.insert, lines 95-116: the validation loop over the schema columns
\* from column i on; the result is [err, row_data]
RECURSIVE InsertValidate(_, _, _, _)
InsertValidate(t, normalized, i, row_data) ==
    IF i > Len(t.schema.columns) THEN [err |-> NoError, row_data |-> row_data]
    ELSE LET col == t.schema.columns[i]
             Checked(col_name, value, co) ==
                 IF value.t = "null" /\ col.not_null
                 THEN [err |-> Error("NotNullViolation", col.name), row_data |-> row_data]
                 ELSE IF ~co.ok
                 THEN [err |-> Error("DataTypeError", col.name), row_data |-> row_data]
                 ELSE IF col.unique /\ co.value.t # "null" /\ InUnique(t, col_name, co.value)
                 THEN [err |-> Error(IF col.primary_key THEN "PrimaryKeyViolation"
                                     ELSE "UniqueViolation", col.name),
                       row_data |-> row_data]
                 ELSE InsertValidate(t, normalized, i + 1,
                                     DictSet(row_data, col_name, co.value))
             Supplied(col_name, value) ==
                 Checked(col_name, value, validate_and_coerce(value, col.data_type))
             Named(col_name) == Supplied(col_name, DictGet(normalized, col_name))
         IN  Named(Lower(col.name))

\* lines 126-131
RECURSIVE InsertUnique(_, _, _, _)
InsertUnique(schema, row_data, i, uv) ==
    IF i > Len(schema.columns) THEN uv
    ELSE LET Tracked(col_name, value) ==
                 InsertUnique(schema, row_data, i + 1,
                    IF schema.columns[i].unique /\ value.t # "null"
                    THEN [uv EXCEPT ![col_name] = SetAdd(@, value)]
                    ELSE uv)
             Named(col_name) == Tracked(col_name, DictGet(row_data, col_name))
         IN  Named(Lower(schema.columns[i].name))

\* lines 134-136
RECURSIVE InsertIndexes(_, _, _, _)
InsertIndexes(row_data, row_id, i, indexes) ==
    IF i > Len(row_data) THEN indexes
    ELSE InsertIndexes(row_data, row_id, i + 1,
            IF row_data[i][2].t # "null"
            THEN IM_insert(indexes, row_data[i][1], row_data[i][2], row_id)
            ELSE indexes)

DataOf(row_data) == [c \in DictKeys(row_data) |-> DictGet(row_data, c)]

\* Table.insert taking its row_id before it validates
TableInsertConsumesId(t, values) ==
    LET row_id == t.next_row_id
        Validated(val) ==
            IF val.err # NoError THEN [err |-> val.err, table |-> [t EXCEPT !.next_row_id = t.next_row_id + 1], row_id |-> 0]
            ELSE [err |-> NoError,
                  row_id |-> row_id,
                  table |-> [t EXCEPT
                      !.next_row_id = row_id + 1,
                      !.rows = RowsSet(t.rows, [row_id |-> row_id,
                                                data |-> DataOf(val.row_data)]),
                      !.unique_values =
                          InsertUnique(t.schema, val.row_data, 1, t.unique_values),
                      !.indexes = InsertIndexes(val.row_data, row_id, 1, t.indexes)]]
    IN  Validated(InsertValidate(t, Normalize(values), 1, <<>>))

\* the result is [err, table, row_id]; row_id is 0 when the insert raised
TableInsert(t, values) ==
    LET row_id == t.next_row_id
        Validated(val) ==
            IF val.err # NoError THEN [err |-> val.err, table |-> t, row_id |-> 0]
            ELSE [err |-> NoError,
                  row_id |-> row_id,
                  table |-> [t EXCEPT
                      !.next_row_id = row_id + 1,
                      !.rows = RowsSet(t.rows, [row_id |-> row_id,
                                                data |-> DataOf(val.row_data)]),
                      !.unique_values =
                          InsertUnique(t.schema, val.row_data, 1, t.unique_values),
                      !.indexes = InsertIndexes(val.row_data, row_id, 1, t.indexes)]]
    IN  Validated(InsertValidate(t, Normalize(values), 1, <<>>))

\* row.data.get(col_name)
RowGet(row, col_name) == IF col_name \in DOMAIN row.data THEN row.data[col_name] ELSE Null

\* row.data[col_name] = value
RowDataSet(data, col_name, value) ==
    [c \in DOMAIN data \cup {col_name} |-> IF c = col_name THEN value ELSE data[c]]

\* Table.update, lines 157-177: the validation loop over the supplied
\* columns from position i on; the result is [err, normalized]
RECURSIVE UpdateValidate(_, _, _, _)
UpdateValidate(t, row, normalized, i) ==
    IF i > Len(normalized) THEN [err |-> NoError, normalized |-> normalized]
    ELSE LET col_name == normalized[i][1]
             new_value == normalized[i][2]
             Checked(col, old_value, co) ==
                 IF new_value.t = "null" /\ col.not_null
                 THEN [err |-> Error("NotNullViolation", col.name),
                       normalized |-> normalized]
                 ELSE IF ~co.ok
                 THEN [err |-> Error("DataTypeError", col.name),
                       normalized |-> normalized]
                 ELSE IF /\ col.unique
                         /\ co.value.t # "null"
                         /\ ~PyEq(co.value, old_value)
                         /\ InUnique(t, col_name, co.value)
                 THEN [err |-> Error(IF col.primary_key THEN "PrimaryKeyViolation"
                                     ELSE "UniqueViolation", col.name),
                       normalized |-> normalized]
                 ELSE UpdateValidate(t, row,
                                     [normalized EXCEPT ![i] = <<col_name, co.value>>],
                                     i + 1)
             Known(col) ==
                 Checked(col, RowGet(row, col_name),
                         validate_and_coerce(new_value, col.data_type))
         IN  IF ~has_column(t.schema, col_name)
             THEN [err |-> Error("ColumnNotFound", col_name), normalized |-> normalized]
             ELSE Known(get_column(t.schema, col_name))

\* lines 185-197, applied to one supplied column
UpdateApplyOne(t, row_id, col_name, new_value) ==
    LET Added(uv) ==
            IF new_value.t # "null" THEN [uv EXCEPT ![col_name] = SetAdd(@, new_value)]
            ELSE uv
        Inserted(ix) ==
            IF new_value.t # "null" THEN IM_insert(ix, col_name, new_value, row_id)
            ELSE ix
        Applied(col, row, old_value) ==
            [t EXCEPT
                !.unique_values =
                    IF ~col.unique THEN @
                    ELSE Added(IF old_value.t # "null"
                               THEN [@ EXCEPT ![col_name] = SetDiscard(@, old_value)]
                               ELSE @),
                !.indexes =
                    Inserted(IF old_value.t # "null"
                             THEN IM_delete(@, col_name, old_value, row_id)
                             ELSE @),
                !.rows[RowIndex(t, row_id)].data = RowDataSet(row.data, col_name, new_value)]
        Held(col, row) == Applied(col, row, RowGet(row, col_name))
    IN  Held(get_column(t.schema, col_name), RowOf(t, row_id))

\* lines 180-197
RECURSIVE UpdateApply(_, _, _, _)
UpdateApply(t, row_id, normalized, i) ==
    IF i > Len(normalized) THEN t
    ELSE UpdateApply(UpdateApplyOne(t, row_id, normalized[i][1], normalized[i][2]),
                     row_id, normalized, i + 1)

\* an update that applies each supplied column as soon as it has passed
\* its own checks
RECURSIVE UpdateEager(_, _, _, _)
UpdateEager(t, row_id, normalized, i) ==
    IF i > Len(normalized) THEN [err |-> NoError, table |-> t, found |-> TRUE]
    ELSE LET Validated(val) ==
                 IF val.err # NoError THEN [err |-> val.err, table |-> t, found |-> TRUE]
                 ELSE UpdateEager(UpdateApplyOne(t, row_id, val.normalized[1][1],
                                                 val.normalized[1][2]),
                                  row_id, normalized, i + 1)
         IN  Validated(UpdateValidate(t, RowOf(t, row_id), <<normalized[i]>>, 1))

TableUpdateEager(t, row_id, values) ==
    IF row_id \notin RowIds(t) THEN [err |-> NoError, table |-> t, found |-> FALSE]
    ELSE UpdateEager(t, row_id, Normalize(values), 1)

\* the result is [err, table, found]; found = FALSE is the None result
TableUpdate(t, row_id, values) ==
    LET Validated(val) ==
            IF val.err # NoError THEN [err |-> val.err, table |-> t, found |-> TRUE]
            ELSE [err |-> NoError, found |-> TRUE,
                  table |-> UpdateApply(t, row_id, val.normalized, 1)]
    IN  IF row_id \notin RowIds(t) THEN [err |-> NoError, table |-> t, found |-> FALSE]
        ELSE Validated(UpdateValidate(t, RowOf(t, row_id), Normalize(values), 1))

\* Table.delete, lines 217-222
RECURSIVE DeleteUnique(_, _, _, _)
DeleteUnique(schema, row, i, uv) ==
    IF i > Len(schema.columns) THEN uv
    ELSE LET Freed(col_name, value) ==
                 DeleteUnique(schema, row, i + 1,
                    IF schema.columns[i].unique /\ value.t # "null"
                    THEN [uv EXCEPT ![col_name] = SetDiscard(@, value)]
                    ELSE uv)
             Named(col_name) == Freed(col_name, RowGet(row, col_name))
         IN  Named(Lower(schema.columns[i].name))

\* lines 225-227; each column has its own index, so the order of the
\* columns does not matter
RECURSIVE DeleteIndexes(_, _, _, _)
DeleteIndexes(row, cols, row_id, indexes) ==
    IF cols = {} THEN indexes
    ELSE LET c == CHOOSE x \in cols : TRUE
         IN  DeleteIndexes(row, cols \ {c}, row_id,
                IF row.data[c].t # "null"
                THEN IM_delete(indexes, c, row.data[c], row_id)
                ELSE indexes)

\* the result is [table, found]
TableDelete(t, row_id) ==
    LET Removed(row) ==
            [found |-> TRUE,
             table |-> [t EXCEPT
                 !.rows = RowsPop(t.rows, row_id),
                 !.unique_values = DeleteUnique(t.schema, row, 1, t.unique_values),
                 !.indexes = DeleteIndexes(row, DOMAIN row.data, row_id, t.indexes)]]
    IN  IF row_id \notin RowIds(t) THEN [table |-> t, found |-> FALSE]
        ELSE Removed(RowOf(t, row_id))

\* Table.clear with the counter left alone
TableClearKeepCounter(t) ==
    [t EXCEPT !.rows = <<>>,
              !.unique_values = [c \in DOMAIN t.unique_values |-> {}],
              !.indexes = InitialIndexes(t.schema)]

TableClear(t) ==
    [t EXCEPT !.rows = <<>>,
              !.next_row_id = 1,
              !.unique_values = [c \in DOMAIN t.unique_values |-> {}],
              !.indexes = InitialIndexes(t.schema)]

\* Table.scan: the rows in the dict's iteration order
scan(t) == t.rows

\* Table.find_by_index: the rows found, in index or scan order
find_by_index(t, column_name, value) ==
    LET RowsOf(row_ids) == [i \in 1..Len(row_ids) |-> RowOf(t, row_ids[i])]
        Found(r) ==
            IF ~r.found
            THEN SelectSeq(t.rows, LAMBDA row : PyEq(RowGet(row, Lower(column_name)), value))
            ELSE RowsOf(SelectSeq(r.row_ids, LAMBDA rid : rid \in RowIds(t)))
    IN  Found(IM_search(t.indexes, column_name, value))

(***************************************************************************)
(* storage.py: Database.  db is [catalog, tables]; the results carry the   *)
(* error raised, if any, and the database afterwards.                      *)
(***************************************************************************)
MapSet(f, k, x) == [n \in DOMAIN f \cup {k} |-> IF n = k THEN x ELSE f[n]]

MapDel(f, k) == [n \in DOMAIN f \ {k} |-> f[n]]

\* Catalog.has_table compared without lower-casing the name
has_table_exact(db, name) == name \in DOMAIN db.catalog

\* Database.has_table -> Catalog.has_table
has_table(db, name) == Lower(name) \in DOMAIN db.catalog

\* Database.create_table: Catalog.create_table raises TableExists first
DbCreateTable(db, schema) ==
    IF Lower(schema.name) \in DOMAIN db.catalog
    THEN [err |-> Error("TableExists", schema.name), db |-> db]
    ELSE [err |-> NoError,
          db |-> [catalog |-> MapSet(db.catalog, Lower(schema.name), schema),
                  tables |-> MapSet(db.tables, Lower(schema.name), NewTable(schema))]]

\* Database.drop_table removing the schema and keeping the table
DbDropTableCatalogOnly(db, name) ==
    IF Lower(name) \notin DOMAIN db.catalog
    THEN [err |-> Error("TableNotFound", name), db |-> db]
    ELSE [err |-> NoError,
          db |-> [catalog |-> MapDel(db.catalog, Lower(name)), tables |-> db.tables]]

\* Database.drop_table: Catalog.drop_table raises TableNotFound first
DbDropTable(db, name) ==
    IF Lower(name) \notin DOMAIN db.catalog
    THEN [err |-> Error("TableNotFound", name), db |-> db]
    ELSE [err |-> NoError,
          db |-> [catalog |-> MapDel(db.catalog, Lower(name)),
                  tables |-> MapDel(db.tables, Lower(name))]]

\* Database.get_table: the check of Catalog.get_table
DbGetTableError(db, name) ==
    IF Lower(name) \notin DOMAIN db.catalog THEN Error("TableNotFound", name) ELSE NoError

(***************************************************************************)
(* ast_nodes.py: expressions and statements, each a record of one shape.   *)
(***************************************************************************)
Literal(value) ==
    [kind |-> "Literal", value |-> value, table |-> "", column |-> "", op |-> "",
     args |-> <<>>]

\* table = "" is ColumnRef.table = None
ColumnRef(table, column) ==
    [kind |-> "ColumnRef", value |-> Null, table |-> table, column |-> column, op |-> "",
     args |-> <<>>]

BinaryExpr(left, op, right) ==
    [kind |-> "BinaryExpr", value |-> Null, table |-> "", column |-> "", op |-> op,
     args |-> <<left, right>>]

UnaryExpr(op, operand) ==
    [kind |-> "UnaryExpr", value |-> Null, table |-> "", column |-> "", op |-> op,
     args |-> <<operand>>]

\* WHERE absent
NoExpr ==
    [kind |-> "None", value |-> Null, table |-> "", column |-> "", op |-> "", args |-> <<>>]

ColumnDef(name, data_type, primary_key, unique, not_null) ==
    [name |-> name, data_type |-> data_type, primary_key |-> primary_key,
     unique |-> unique, not_null |-> not_null]

CreateTableStmt(table_name, columns, if_not_exists) ==
    [table_name |-> table_name, columns |-> columns, if_not_exists |-> if_not_exists]

DropTableStmt(table_name, if_exists) == [table_name |-> table_name, if_exists |-> if_exists]

\* columns = <<>> is InsertStmt.columns = None
InsertStmt(table_name, columns, values) ==
    [table_name |-> table_name, columns |-> columns, values |-> values]

UpdateStmt(table_name, assignments, where) ==
    [table_name |-> table_name, assignments |-> assignments, where |-> where]

DeleteStmt(table_name, where) == [table_name |-> table_name, where |-> where]

(***************************************************************************)
(* executor.py: expression evaluation.  A working-set row maps             *)
(* <<prefix, column>> to a value; prefixes is ctx.tables.keys() in order,  *)
(* and <<>> when evaluate_expr is called without a context.                *)
(***************************************************************************)
Value(v) == [err |-> NoError, value |-> v]

Raise(kind, name) == [err |-> Error(kind, name), value |-> Null]

\* bool(x) of a non-null value
Truthy(a) ==
    CASE a.t = "bool" -> a.v = 1
      [] a.t = "int" -> a.v # 0
      [] a.t = "real" -> a.v # 0
      [] a.t = "text" -> a.s # ""
      [] OTHER -> FALSE

Comparable(a, b) == (IsNumeric(a) /\ IsNumeric(b)) \/ (a.t = "text" /\ b.t = "text")

\* ExecutionContext.resolve_column
resolve_column(col_ref, row, prefixes) ==
    LET col_name == Lower(col_ref.column)
        matches == SelectSeq(prefixes, LAMBDA prefix : <<prefix, col_name>> \in DOMAIN row)
    IN  IF col_ref.table # ""
        THEN IF <<Lower(col_ref.table), col_name>> \in DOMAIN row
             THEN Value(row[<<Lower(col_ref.table), col_name>>])
             ELSE Raise("ColumnNotFound", col_ref.column)
        ELSE IF Len(matches) = 0 THEN Raise("ColumnNotFound", col_ref.column)
        ELSE IF Len(matches) > 1 THEN Raise("AmbiguousColumn", col_ref.column)
        ELSE Value(row[<<matches[1], col_name>>])

\* the characters of the strings and LIKE patterns the model can hold
CharsOf(str) ==
    CASE str = "" -> <<>>
      [] str = "1.0" -> <<"1", ".", "0">>
      [] str = "1.5" -> <<"1", ".", "5">>
      [] str = "2.0" -> <<"2", ".", "0">>
      [] str = "3.0" -> <<"3", ".", "0">>
      [] str = "False" -> <<"F", "a", "l", "s", "e">>
      [] str = "True" -> <<"T", "r", "u", "e">>
      [] str = "a%" -> <<"a", "%">>
      [] str = "_%" -> <<"_", "%">>
      [] str = "t_u%" -> <<"t", "_", "u", "%">>
      [] OTHER -> <<str>>

\* re.IGNORECASE on one character
LowerChar(ch) ==
    CASE ch = "A" -> "a"
      [] ch = "F" -> "f"
      [] ch = "T" -> "t"
      [] OTHER -> ch

\* re.match('^' + pattern + '$', text, re.IGNORECASE) from position i of the
\* pattern and j of the text, where the pattern is the LIKE pattern after
\* replace('%', '.*').replace('_', '.'): % is ".*", _ is ".", and a "."
\* written in the LIKE pattern is the regular expression's "." too
RECURSIVE ReMatch(_, _, _, _)
ReMatch(pattern, i, text, j) ==
    IF i > Len(pattern) THEN j > Len(text)
    ELSE IF pattern[i] = "%"
         THEN ReMatch(pattern, i + 1, text, j)
              \/ (j <= Len(text) /\ ReMatch(pattern, i, text, j + 1))
    ELSE /\ j <= Len(text)
         /\ pattern[i] \in {"_", "."} \/ LowerChar(pattern[i]) = LowerChar(text[j])
         /\ ReMatch(pattern, i + 1, text, j + 1)

\* the LIKE branch: right.replace raises AttributeError unless right is a str
Like(left, right) ==
    IF right.t # "text" THEN Raise("AttributeError", "replace")
    ELSE Value(BoolV(ReMatch(CharsOf(right.s), 1,
                             CharsOf(IF left.t = "text" THEN left.s ELSE StrOf(left)), 1)))

\* Executor._apply_binary_op; a comparison of a str with a number raises
\* Python's TypeError
_apply_binary_op(op, left, right) ==
    IF op \notin {"AND", "OR"} /\ (left.t = "null" \/ right.t = "null") THEN Value(Null)
    ELSE CASE op = "EQ" -> Value(BoolV(PyEq(left, right)))
           [] op = "NE" -> Value(BoolV(~PyEq(left, right)))
           [] op = "LT" -> IF Comparable(left, right) THEN Value(BoolV(PyLt(left, right)))
                           ELSE Raise("TypeError", "")
           [] op = "LE" -> IF Comparable(left, right) THEN Value(BoolV(~PyLt(right, left)))
                           ELSE Raise("TypeError", "")
           [] op = "GT" -> IF Comparable(left, right) THEN Value(BoolV(PyLt(right, left)))
                           ELSE Raise("TypeError", "")
           [] op = "GE" -> IF Comparable(left, right) THEN Value(BoolV(~PyLt(left, right)))
                           ELSE Raise("TypeError", "")
           [] op = "AND" ->
                IF left = BoolV(FALSE) \/ right = BoolV(FALSE) THEN Value(BoolV(FALSE))
                ELSE IF left.t = "null" \/ right.t = "null" THEN Value(Null)
                ELSE Value(IF Truthy(left) THEN right ELSE left)
           [] op = "OR" ->
                IF left = BoolV(TRUE) \/ right = BoolV(TRUE) THEN Value(BoolV(TRUE))
                ELSE IF left.t = "null" \/ right.t = "null" THEN Value(Null)
                ELSE Value(IF Truthy(left) THEN left ELSE right)
           [] op = "LIKE" -> Like(left, right)
           [] OTHER -> Raise("RDBMSError", op)

\* NOT without its test for None: "not None" is True
ApplyUnaryOpNoNullTest(op, operand) ==
    CASE op = "NOT" -> Value(BoolV(~(operand.t # "null" /\ Truthy(operand))))
      [] op = "IS_NULL" -> Value(BoolV(operand.t = "null"))
      [] op = "IS_NOT_NULL" -> Value(BoolV(operand.t # "null"))
      [] OTHER -> Raise("RDBMSError", op)

\* Executor._apply_unary_op
_apply_unary_op(op, operand) ==
    CASE op = "NOT" -> IF operand.t = "null" THEN Value(Null)
                       ELSE Value(BoolV(~Truthy(operand)))
      [] op = "IS_NULL" -> Value(BoolV(operand.t = "null"))
      [] op = "IS_NOT_NULL" -> Value(BoolV(operand.t # "null"))
      [] OTHER -> Raise("RDBMSError", op)

\* Executor.evaluate_expr; the result is [err, value]
RECURSIVE evaluate_expr(_, _, _)
evaluate_expr(expr, row, prefixes) ==
    LET Binary(left, right) ==
            IF left.err # NoError THEN left
            ELSE IF right.err # NoError THEN right
            ELSE _apply_binary_op(expr.op, left.value, right.value)
        Unary(operand) ==
            IF operand.err # NoError THEN operand
            ELSE _apply_unary_op(expr.op, operand.value)
    IN  CASE expr.kind = "Literal" -> Value(expr.value)
          [] expr.kind = "ColumnRef" ->
                IF Len(prefixes) > 0 THEN resolve_column(expr, row, prefixes)
                ELSE IF <<"", Lower(expr.column)>> \in DOMAIN row
                     THEN Value(row[<<"", Lower(expr.column)>>])
                     ELSE Raise("ColumnNotFound", expr.column)
          [] expr.kind = "BinaryExpr" ->
                Binary(evaluate_expr(expr.args[1], row, prefixes),
                       evaluate_expr(expr.args[2], row, prefixes))
          [] expr.kind = "UnaryExpr" -> Unary(evaluate_expr(expr.args[1], row, prefixes))
          [] OTHER -> Raise("RDBMSError", expr.kind)

\* _evaluate_where returning bool(result) for None too, taken as true
EvaluateWhereNullTrue(expr, row, prefixes) ==
    LET Truth(result) ==
            IF result.err # NoError THEN [err |-> result.err, value |-> FALSE]
            ELSE [err |-> NoError,
                  value |-> result.value.t = "null" \/ Truthy(result.value)]
    IN  Truth(evaluate_expr(expr, row, prefixes))

\* Executor._evaluate_where; the result is [err, value] with a Boolean value
_evaluate_where(expr, row, prefixes) ==
    LET Truth(result) ==
            IF result.err # NoError THEN [err |-> result.err, value |-> FALSE]
            ELSE [err |-> NoError,
                  value |-> result.value.t # "null" /\ Truthy(result.value)]
    IN  Truth(evaluate_expr(expr, row, prefixes))

\* {f"{prefix}.{k}": v for k, v in row.data.items()}
Prefixed(prefix, row) ==
    [key \in {<<prefix, c>> : c \in DOMAIN row.data} |-> row.data[key[2]]]

EmptyRow == [key \in {} |-> Null]

(***************************************************************************)
(* executor.py: statements.  Every result is [err, db, affected_rows,      *)
(* message]; db is the database the statement leaves behind, also when it  *)
(* raised.                                                                 *)
(***************************************************************************)
Outcome(err, db, affected_rows, message) ==
    [err |-> err, db |-> db, affected_rows |-> affected_rows, message |-> message]

\* DataType.from_string; "" stands for ValueError
DataTypeFromString(type_str) ==
    CASE type_str \in {"INTEGER", "INT"} -> "INTEGER"
      [] type_str \in {"TEXT", "VARCHAR", "STRING"} -> "TEXT"
      [] type_str \in {"REAL", "FLOAT", "DOUBLE"} -> "REAL"
      [] type_str \in {"BOOLEAN", "BOOL"} -> "BOOLEAN"
      [] OTHER -> ""

\* lines 131-140
ColumnsOf(stmt) ==
    [i \in 1..Len(stmt.columns) |->
        Column(stmt.columns[i].name, DataTypeFromString(stmt.columns[i].data_type),
               stmt.columns[i].primary_key, stmt.columns[i].unique,
               stmt.columns[i].not_null)]

execute_create_table(db, stmt) ==
    LET Created(r) == Outcome(r.err, r.db, 0, IF r.err = NoError THEN "created" ELSE "")
        Declared(schema) ==
            IF ~SchemaValid(schema) THEN Outcome(Error("ValueError", stmt.table_name), db, 0, "")
            ELSE Created(DbCreateTable(db, schema))
    IN  IF stmt.if_not_exists /\ has_table(db, stmt.table_name)
        THEN Outcome(NoError, db, 0, "already exists")
        ELSE IF \E i \in 1..Len(stmt.columns) :
                    DataTypeFromString(stmt.columns[i].data_type) = ""
        THEN Outcome(Error("ValueError", stmt.table_name), db, 0, "")
        ELSE Declared(TableSchema(stmt.table_name, ColumnsOf(stmt)))

execute_drop_table(db, stmt) ==
    LET Dropped(r) == Outcome(r.err, r.db, 0, IF r.err = NoError THEN "dropped" ELSE "")
    IN  IF stmt.if_exists /\ ~has_table(db, stmt.table_name)
        THEN Outcome(NoError, db, 0, "does not exist")
        ELSE Dropped(DbDropTable(db, stmt.table_name))

column_names(schema) == [i \in 1..Len(schema.columns) |-> schema.columns[i].name]

\* lines 192-195: the dict of one value list, or the error of the first
\* expression that raises; the result is [err, row_data]
RECURSIVE EvaluateValues(_, _, _, _)
EvaluateValues(columns, value_list, i, row_data) ==
    LET Bound(r) ==
            IF r.err # NoError THEN [err |-> r.err, row_data |-> row_data]
            ELSE EvaluateValues(columns, value_list, i + 1,
                                DictSet(row_data, columns[i], r.value))
    IN  IF i > Len(columns) \/ i > Len(value_list)
        THEN [err |-> NoError, row_data |-> row_data]
        ELSE Bound(evaluate_expr(value_list[i], EmptyRow, <<>>))

\* lines 179-198: the value lists from list i on; the result is
\* [err, table, count]
RECURSIVE InsertLoop(_, _, _, _)
InsertLoop(t, stmt, i, count) ==
    LET Inserted(ins) ==
            IF ins.err # NoError THEN [err |-> ins.err, table |-> t, count |-> count]
            ELSE InsertLoop(ins.table, stmt, i + 1, count + 1)
        Evaluated(ev) ==
            IF ev.err # NoError THEN [err |-> ev.err, table |-> t, count |-> count]
            ELSE Inserted(TableInsert(t, ev.row_data))
        Listed(columns) ==
            IF Len(stmt.values[i]) # Len(columns)
            THEN [err |-> Error("SemanticError", stmt.table_name), table |-> t,
                  count |-> count]
            ELSE Evaluated(EvaluateValues(columns, stmt.values[i], 1, <<>>))
    IN  IF i > Len(stmt.values) THEN [err |-> NoError, table |-> t, count |-> count]
        ELSE Listed(IF Len(stmt.columns) > 0 THEN stmt.columns
                    ELSE column_names(t.schema))

WithTable(db, name, t) == [db EXCEPT !.tables[Lower(name)] = t]

execute_insert(db, stmt) ==
    LET Raised(err) ==
            IF err # NoError THEN Outcome(err, db, 0, "")
            ELSE LET Looped(r) ==
                         Outcome(r.err, WithTable(db, stmt.table_name, r.table),
                                 IF r.err = NoError THEN r.count ELSE 0,
                                 IF r.err = NoError THEN "Inserted" ELSE "")
                 IN  Looped(InsertLoop(db.tables[Lower(stmt.table_name)], stmt, 1, 0))
    IN  Raised(DbGetTableError(db, stmt.table_name))

\* lines 457-459; the result is [err, row_data]
RECURSIVE EvaluateAssignments(_, _, _, _, _)
EvaluateAssignments(assignments, prefixed, prefixes, i, updates) ==
    LET Bound(r) ==
            IF r.err # NoError THEN [err |-> r.err, row_data |-> updates]
            ELSE EvaluateAssignments(assignments, prefixed, prefixes, i + 1,
                                     DictSet(updates, assignments[i][1], r.value))
    IN  IF i > Len(assignments) THEN [err |-> NoError, row_data |-> updates]
        ELSE Bound(evaluate_expr(assignments[i][2], prefixed, prefixes))

\* lines 451-462: the scanned rows from position i of the snapshot on; the
\* result is [err, table, count]
RECURSIVE UpdateLoop(_, _, _, _, _)
UpdateLoop(t, stmt, snapshot, i, count) ==
    LET Updated(upd) ==
            IF upd.err # NoError THEN [err |-> upd.err, table |-> t, count |-> count]
            ELSE UpdateLoop(upd.table, stmt, snapshot, i + 1, count + 1)
        Evaluated(ev) ==
            IF ev.err # NoError THEN [err |-> ev.err, table |-> t, count |-> count]
            ELSE Updated(TableUpdate(t, snapshot[i], ev.row_data))
        Matched(prefix, prefixed, w) ==
            IF w.err # NoError THEN [err |-> w.err, table |-> t, count |-> count]
            ELSE IF ~w.value THEN UpdateLoop(t, stmt, snapshot, i + 1, count)
            ELSE Evaluated(EvaluateAssignments(stmt.assignments, prefixed, <<prefix>>,
                                               1, <<>>))
        Scanned(prefix, prefixed) ==
            Matched(prefix, prefixed,
                    IF stmt.where.kind = "None" THEN [err |-> NoError, value |-> TRUE]
                    ELSE _evaluate_where(stmt.where, prefixed, <<prefix>>))
        Named(prefix) == Scanned(prefix, Prefixed(prefix, RowOf(t, snapshot[i])))
    IN  IF i > Len(snapshot) THEN [err |-> NoError, table |-> t, count |-> count]
        ELSE Named(Lower(stmt.table_name))

RowIdList(t) == [i \in 1..Len(t.rows) |-> t.rows[i].row_id]

execute_update(db, stmt) ==
    LET Looped(r) ==
            Outcome(r.err, WithTable(db, stmt.table_name, r.table),
                    IF r.err = NoError THEN r.count ELSE 0,
                    IF r.err = NoError THEN "Updated" ELSE "")
        Scanned(t) == Looped(UpdateLoop(t, stmt, RowIdList(t), 1, 0))
        Raised(err) ==
            IF err # NoError THEN Outcome(err, db, 0, "")
            ELSE Scanned(db.tables[Lower(stmt.table_name)])
    IN  Raised(DbGetTableError(db, stmt.table_name))

\* lines 481-486: the row_ids whose WHERE is truthy; the result is
\* [err, to_delete]
RECURSIVE CollectDeletes(_, _, _, _)
CollectDeletes(t, stmt, i, to_delete) ==
    LET Matched(w) ==
            IF w.err # NoError THEN [err |-> w.err, to_delete |-> to_delete]
            ELSE CollectDeletes(t, stmt, i + 1,
                                IF w.value THEN Append(to_delete, t.rows[i].row_id)
                                ELSE to_delete)
        Named(prefix) ==
            Matched(IF stmt.where.kind = "None" THEN [err |-> NoError, value |-> TRUE]
                    ELSE _evaluate_where(stmt.where, Prefixed(prefix, t.rows[i]),
                                         <<prefix>>))
    IN  IF i > Len(t.rows) THEN [err |-> NoError, to_delete |-> to_delete]
        ELSE Named(Lower(stmt.table_name))

\* lines 488-489
RECURSIVE DeleteAll(_, _, _)
DeleteAll(t, to_delete, i) ==
    IF i > Len(to_delete) THEN t
    ELSE DeleteAll(TableDelete(t, to_delete[i]).table, to_delete, i + 1)

execute_delete(db, stmt) ==
    LET Collected(t, c) ==
            IF c.err # NoError THEN Outcome(c.err, db, 0, "")
            ELSE Outcome(NoError,
                         WithTable(db, stmt.table_name, DeleteAll(t, c.to_delete, 1)),
                         Len(c.to_delete), "Deleted")
        Scanned(t) == Collected(t, CollectDeletes(t, stmt, 1, <<>>))
        Raised(err) ==
            IF err # NoError THEN Outcome(err, db, 0, "")
            ELSE Scanned(db.tables[Lower(stmt.table_name)])
    IN  Raised(DbGetTableError(db, stmt.table_name))

(***************************************************************************)
(* ast_nodes.py: SELECT.  An Optional[int] is <<>> for None and <<n>> for  *)
(* n; an absent alias is "".                                               *)
(***************************************************************************)
\* table = "" is StarExpr.table = None
StarExpr(table) ==
    [kind |-> "StarExpr", value |-> Null, table |-> table, column |-> "", op |-> "",
     args |-> <<>>]

TableRef(name, alias) == [name |-> name, alias |-> alias]

\* TableRef.effective_name
effective_name(table_ref) == IF table_ref.alias # "" THEN table_ref.alias ELSE table_ref.name

\* condition = NoExpr is JoinClause.condition = None
JoinClause(join_type, table, condition) ==
    [join_type |-> join_type, table |-> table, condition |-> condition]

FromClause(table, joins) == [present |-> TRUE, table |-> table, joins |-> joins]

\* SelectStmt.from_clause = None
NoFrom == [present |-> FALSE, table |-> TableRef("", ""), joins |-> <<>>]

OrderByItem(column, direction) == [column |-> column, direction |-> direction]

SelectStmt(columns, from_clause, where, order_by, limit, offset) ==
    [columns |-> columns, from_clause |-> from_clause, where |-> where,
     order_by |-> order_by, limit |-> limit, offset |-> offset]

\* str(expr): Expression.__repr__
RECURSIVE ExprStr(_)
ExprStr(expr) ==
    CASE expr.kind = "Literal" ->
            IF expr.value.t = "text" THEN "'" \o expr.value.s \o "'"
            ELSE IF expr.value.t = "null" THEN "None"
            ELSE StrOf(expr.value)
      [] expr.kind = "ColumnRef" ->
            IF expr.table # "" THEN expr.table \o "." \o expr.column ELSE expr.column
      [] expr.kind = "BinaryExpr" ->
            "(" \o ExprStr(expr.args[1]) \o " " \o expr.op \o " " \o ExprStr(expr.args[2])
                \o ")"
      [] expr.kind = "UnaryExpr" -> "(" \o expr.op \o " " \o ExprStr(expr.args[1]) \o ")"
      [] expr.kind = "StarExpr" -> IF expr.table # "" THEN expr.table \o ".*" ELSE "*"
      [] OTHER -> ""

(***************************************************************************)
(* executor.py: SELECT.  A working-set row is [data, row_ids]: data maps   *)
(* <<prefix, column>> (the key "prefix.column") to a value and row_ids is  *)
(* the dict under the key '_row_ids'.  ctx.tables is a list of             *)
(* <<prefix, table>> pairs in insertion order.                             *)
(***************************************************************************)
Rows(err, rows) == [err |-> err, rows |-> rows]

\* {**f, **g}
FnMerge(f, g) == [k \in DOMAIN f \cup DOMAIN g |-> IF k \in DOMAIN g THEN g[k] ELSE f[k]]

\* ExecutionContext.add_table; the result is [err, tables]
add_table(db, ctx_tables, table_ref) ==
    IF DbGetTableError(db, table_ref.name) # NoError
    THEN [err |-> DbGetTableError(db, table_ref.name), tables |-> ctx_tables]
    ELSE [err |-> NoError,
          tables |-> DictSet(ctx_tables, Lower(effective_name(table_ref)),
                             db.tables[Lower(table_ref.name)])]

\* Executor._table_to_rows: one prefixed row per scanned row
_table_to_rows(t, prefix) ==
    LET Scanned(rows) ==
            [i \in 1..Len(rows) |->
                [data |-> Prefixed(Lower(prefix), rows[i]),
                 row_ids |-> [p \in {Lower(prefix)} |-> rows[i].row_id]]]
    IN  Scanned(scan(t))

_merge_rows(left, right) ==
    [data |-> FnMerge(left.data, right.data),
     row_ids |-> FnMerge(left.row_ids, right.row_ids)]

\* the right half of an unmatched left row without the columns of the table
NullRightNoColumns(right_prefix, right_table) ==
    [data |-> EmptyRow, row_ids |-> [p \in {} |-> 0]]

\* lines 295-298: the right half of an unmatched left row
NullRight(right_prefix, right_table) ==
    [data |-> [key \in {<<right_prefix, Lower(right_table.schema.columns[k].name)>> :
                          k \in 1..Len(right_table.schema.columns)} |-> Null],
     row_ids |-> [p \in {} |-> 0]]

\* the ON condition on a merged row; the result is [err, value]
JoinCondition(join, merged, prefixes) ==
    IF join.condition.kind = "None" THEN [err |-> NoError, value |-> TRUE]
    ELSE _evaluate_where(join.condition, merged.data, prefixes)

\* lines 277-282: the pairs from (i, j) on
RECURSIVE CrossLoop(_, _, _, _, _)
CrossLoop(left_rows, right_rows, i, j, result) ==
    IF i > Len(left_rows) THEN result
    ELSE IF j > Len(right_rows) THEN CrossLoop(left_rows, right_rows, i + 1, 1, result)
    ELSE CrossLoop(left_rows, right_rows, i, j + 1,
                   Append(result, _merge_rows(left_rows[i], right_rows[j])))

\* lines 285-299: the pairs from (i, j) on, for the join q =
\* [left_rows, right_rows, right_table, join, prefixes]; matched is the flag
\* of left row i
RECURSIVE ForwardLoop(_, _, _, _, _)
ForwardLoop(q, i, j, matched, result) ==
    LET Tested(merged, w) ==
            IF w.err # NoError THEN Rows(w.err, <<>>)
            ELSE ForwardLoop(q, i, j + 1, matched \/ w.value,
                             IF w.value THEN Append(result, merged) ELSE result)
        Merged(merged) == Tested(merged, JoinCondition(q.join, merged, q.prefixes))
    IN  IF i > Len(q.left_rows) THEN Rows(NoError, result)
        ELSE IF j > Len(q.right_rows)
        THEN ForwardLoop(q, i + 1, 1, FALSE,
                         IF ~matched /\ q.join.join_type = "LEFT"
                         THEN Append(result,
                                     _merge_rows(q.left_rows[i],
                                                 NullRight(Lower(effective_name(q.join.table)),
                                                           q.right_table)))
                         ELSE result)
        ELSE Merged(_merge_rows(q.left_rows[i], q.right_rows[j]))

\* key.startswith('_') on the prefixes of the model
StartsWithUnderscore(prefix) == prefix \in {"_l", "_row_ids"}

\* lines 304-307 and 317-323: the left half of an unmatched right row, built
\* from the keys of the first left row
NullLeft(left_rows) ==
    IF Len(left_rows) = 0 THEN [data |-> EmptyRow, row_ids |-> [p \in {} |-> 0]]
    ELSE [data |-> [key \in {k \in DOMAIN left_rows[1].data : ~StartsWithUnderscore(k[1])}
                        |-> Null],
          row_ids |-> [p \in {} |-> 0]]

\* lines 309-324: the unmatched right rows from row j on.  Every pair was
\* evaluated without raising by the forward pass, so no evaluation raises
\* here.
RECURSIVE RightLoop(_, _, _)
RightLoop(q, j, result) ==
    IF j > Len(q.right_rows) THEN result
    ELSE RightLoop(q, j + 1,
            IF \E i \in 1..Len(q.left_rows) :
                    JoinCondition(q.join, _merge_rows(q.left_rows[i], q.right_rows[j]),
                                  q.prefixes).value
            THEN result
            ELSE Append(result, _merge_rows(NullLeft(q.left_rows), q.right_rows[j])))

\* Executor._execute_join; the result is [err, rows]
_execute_join(left_rows, right_table, join, prefixes) ==
    LET Passed(q, r) ==
            IF r.err # NoError \/ join.join_type # "RIGHT" THEN r
            ELSE Rows(NoError, RightLoop(q, 1, r.rows))
        Joined(q) ==
            IF join.join_type = "CROSS"
            THEN Rows(NoError, CrossLoop(q.left_rows, q.right_rows, 1, 1, <<>>))
            ELSE Passed(q, ForwardLoop(q, 1, 1, FALSE, <<>>))
    IN  Joined([left_rows |-> left_rows,
                right_rows |-> _table_to_rows(right_table, effective_name(join.table)),
                right_table |-> right_table, join |-> join, prefixes |-> prefixes])

\* datatypes.compare_values on two non-null values of one column
compare_values(left, right) ==
    IF left.t = "null" /\ right.t = "null" THEN 0
    ELSE IF left.t = "null" THEN -1
    ELSE IF right.t = "null" THEN 1
    ELSE IF PyLt(left, right) THEN -1
    ELSE IF PyLt(right, left) THEN 1
    ELSE 0

\* sort_key placing nulls last in either direction
RECURSIVE SortKeyNullsLast(_, _, _, _, _)
SortKeyNullsLast(row, order_by, prefixes, i, key) ==
    LET Resolved(r) ==
            IF r.err # NoError THEN [err |-> r.err, key |-> key]
            ELSE SortKeyNullsLast(row, order_by, prefixes, i + 1,
                                  Append(key,
                                         IF r.value.t = "null"
                                         THEN [null_order |-> 1, value |-> Null]
                                         ELSE [null_order |-> 0, value |-> r.value]))
    IN  IF i > Len(order_by) THEN [err |-> NoError, key |-> key]
        ELSE Resolved(resolve_column(order_by[i].column, row.data, prefixes))

\* sort_key, lines 350-366: one [null_order, value] per ORDER BY item, or
\* the error of the first item that does not resolve; the result is
\* [err, key]
RECURSIVE sort_key(_, _, _, _, _)
sort_key(row, order_by, prefixes, i, key) ==
    LET Resolved(r) ==
            IF r.err # NoError THEN [err |-> r.err, key |-> key]
            ELSE sort_key(row, order_by, prefixes, i + 1,
                          Append(key,
                                 IF r.value.t = "null"
                                 THEN IF order_by[i].direction = "ASC"
                                      THEN [null_order |-> 1, value |-> Null]
                                      ELSE [null_order |-> 0, value |-> Null]
                                 ELSE IF order_by[i].direction = "ASC"
                                      THEN [null_order |-> 0, value |-> r.value]
                                      ELSE [null_order |-> 1, value |-> r.value]))
    IN  IF i > Len(order_by) THEN [err |-> NoError, key |-> key]
        ELSE Resolved(resolve_column(order_by[i].column, row.data, prefixes))

\* compare_keys, lines 369-383, from item i on
RECURSIVE compare_keys(_, _, _, _)
compare_keys(a, b, order_by, i) ==
    IF i > Len(a) THEN 0
    ELSE IF a[i].null_order # b[i].null_order THEN a[i].null_order - b[i].null_order
    ELSE IF a[i].value.t = "null" /\ b[i].value.t = "null"
         THEN compare_keys(a, b, order_by, i + 1)
    ELSE IF compare_values(a[i].value, b[i].value) # 0
         THEN IF order_by[i].direction = "ASC" THEN compare_values(a[i].value, b[i].value)
              ELSE 0 - compare_values(a[i].value, b[i].value)
    ELSE compare_keys(a, b, order_by, i + 1)

\* the place sorted() gives a row among rows already sorted: behind every
\* row that does not compare greater (the sort is stable)
RECURSIVE SortedPlace(_, _, _, _)
SortedPlace(sorted, keyed, order_by, k) ==
    IF k > Len(sorted) THEN k
    ELSE IF compare_keys(keyed.key, sorted[k].key, order_by, 1) < 0 THEN k
    ELSE SortedPlace(sorted, keyed, order_by, k + 1)

\* sorted(rows, key=cmp_to_key(...)) on rows paired with their keys
RECURSIVE SortedFrom(_, _, _, _)
SortedFrom(keyed, order_by, i, sorted) ==
    IF i > Len(keyed) THEN sorted
    ELSE SortedFrom(keyed, order_by, i + 1,
                    ListInsert(sorted, SortedPlace(sorted, keyed[i], order_by, 1) - 1,
                               keyed[i]))

\* Executor._apply_order_by; the result is [err, rows].  sorted() calls the
\* comparison, and with it sort_key, only when it has two rows to compare;
\* the rows of one working set have the same keys, so the first row's error
\* is every row's.
_apply_order_by(rows, order_by, prefixes) ==
    LET KeyedRow(row, k) == [row |-> row, err |-> k.err, key |-> k.key]
        RowsOf(sorted) == [i \in 1..Len(sorted) |-> sorted[i].row]
        Checked(keyed) ==
            IF \E i \in 1..Len(keyed) : keyed[i].err # NoError
            THEN Rows(keyed[CHOOSE i \in 1..Len(keyed) :
                                /\ keyed[i].err # NoError
                                /\ \A k \in 1..(i - 1) : keyed[k].err = NoError].err,
                      <<>>)
            ELSE Rows(NoError, RowsOf(SortedFrom(keyed, order_by, 1, <<>>)))
    IN  IF Len(rows) < 2 THEN Rows(NoError, rows)
        ELSE Checked([i \in 1..Len(rows) |->
                         KeyedRow(rows[i], sort_key(rows[i], order_by, prefixes, 1, <<>>))])

\* rows[offset:]
SliceFrom(rows, offset) ==
    LET start == IF offset < 0 THEN (IF Len(rows) + offset < 0 THEN 0 ELSE Len(rows) + offset)
                 ELSE IF offset > Len(rows) THEN Len(rows) ELSE offset
    IN  SubSeq(rows, start + 1, Len(rows))

\* rows[:limit]
SliceTo(rows, limit) ==
    LET stop == IF limit < 0 THEN (IF Len(rows) + limit < 0 THEN 0 ELSE Len(rows) + limit)
                ELSE IF limit > Len(rows) THEN Len(rows) ELSE limit
    IN  SubSeq(rows, 1, stop)

\* lines 244-250
ApplyOffsetLimit(rows, stmt) ==
    LET Limited(rest) == IF stmt.limit # <<>> THEN SliceTo(rest, stmt.limit[1]) ELSE rest
    IN  Limited(IF stmt.offset # <<>> /\ stmt.offset[1] # 0
                THEN SliceFrom(rows, stmt.offset[1]) ELSE rows)

\* list(d.keys())
KeyList(d) == [i \in 1..Len(d) |-> d[i][1]]

\* the columns "label.name" of a star over one table, each with the key of
\* the working-set row it reads
StarColumns(label, t) ==
    [k \in 1..Len(t.schema.columns) |->
        [name |-> label \o "." \o t.schema.columns[k].name,
         key |-> <<Lower(label), Lower(t.schema.columns[k].name)>>]]

\* the star columns of the tables of ctx.tables from table k on
RECURSIVE AllStarColumns(_, _)
AllStarColumns(ctx_tables, k) ==
    IF k > Len(ctx_tables) THEN <<>>
    ELSE StarColumns(ctx_tables[k][1], ctx_tables[k][2])
             \o AllStarColumns(ctx_tables, k + 1)

\* the result columns one select item stands for; ExecutionContext.get_table
\* raises TableNotFound for a star over a name that is not in scope; the
\* result is [err, columns]
ItemColumns(expr, ctx_tables) ==
    IF expr.kind = "StarExpr"
    THEN IF expr.table # ""
         THEN IF DictHas(ctx_tables, Lower(expr.table))
              THEN [err |-> NoError,
                    columns |-> StarColumns(expr.table, DictGet(ctx_tables, Lower(expr.table)))]
              ELSE [err |-> Error("TableNotFound", expr.table), columns |-> <<>>]
         ELSE [err |-> NoError, columns |-> AllStarColumns(ctx_tables, 1)]
    ELSE [err |-> NoError, columns |-> <<[name |-> ExprStr(expr), key |-> <<"", "">>]>>]

\* lines 396-411: result_columns from select item i on; the result is
\* [err, columns]
RECURSIVE ResultColumns(_, _, _, _)
ResultColumns(columns, ctx_tables, i, result_columns) ==
    LET Expanded(r) ==
            IF r.err # NoError THEN [err |-> r.err, columns |-> <<>>]
            ELSE ResultColumns(columns, ctx_tables, i + 1,
                               result_columns
                                   \o [k \in 1..Len(r.columns) |-> r.columns[k].name])
    IN  IF i > Len(columns) THEN [err |-> NoError, columns |-> result_columns]
        ELSE Expanded(ItemColumns(columns[i], ctx_tables))

\* projected[col_name] = row.get(key) for the star columns from k on
RECURSIVE ProjectStar(_, _, _, _)
ProjectStar(star_columns, row, k, projected) ==
    IF k > Len(star_columns) THEN projected
    ELSE ProjectStar(star_columns, row, k + 1,
                     DictSet(projected, star_columns[k].name,
                             IF star_columns[k].key \in DOMAIN row.data
                             THEN row.data[star_columns[k].key] ELSE Null))

\* lines 415-432: one row projected from select item i on, for the
\* projection p = [columns, result_columns, ctx_tables]; item i (counted
\* from 0) is named result_columns[i]; the result is [err, row]
RECURSIVE ProjectRow(_, _, _, _)
ProjectRow(p, row, i, projected) ==
    LET Evaluated(r) ==
            IF r.err # NoError THEN [err |-> r.err, row |-> projected]
            ELSE ProjectRow(p, row, i + 1,
                            DictSet(projected,
                                    IF i <= Len(p.result_columns) THEN p.result_columns[i]
                                    ELSE ExprStr(p.columns[i]),
                                    r.value))
    IN  IF i > Len(p.columns) THEN [err |-> NoError, row |-> projected]
        ELSE IF p.columns[i].kind = "StarExpr"
        THEN ProjectRow(p, row, i + 1,
                        ProjectStar(ItemColumns(p.columns[i], p.ctx_tables).columns, row, 1,
                                    projected))
        ELSE Evaluated(evaluate_expr(p.columns[i], row.data, KeyList(p.ctx_tables)))

\* lines 414-433: the rows from row k on; the result is [err, rows]
RECURSIVE ProjectRows(_, _, _, _)
ProjectRows(p, rows, k, result_rows) ==
    LET Projected(r) ==
            IF r.err # NoError THEN Rows(r.err, <<>>)
            ELSE ProjectRows(p, rows, k + 1, Append(result_rows, r.row))
    IN  IF k > Len(rows) THEN Rows(NoError, result_rows)
        ELSE Projected(ProjectRow(p, rows[k], 1, <<>>))

\* a SELECT that takes a row_id from every table it could have read
SelectedConsumesIds(err, db, columns, rows) ==
    [err |-> err,
     db |-> [db EXCEPT !.tables =
                [n \in DOMAIN @ |-> [@[n] EXCEPT !.next_row_id = @ + 1]]],
     columns |-> columns, rows |-> rows, affected_rows |-> 0, message |-> ""]

\* the result of a SELECT: QueryResult(columns, rows) or the error raised,
\* and the database afterwards
Selected(err, db, columns, rows) ==
    [err |-> err, db |-> db, columns |-> columns, rows |-> rows, affected_rows |-> 0,
     message |-> ""]

\* Executor._project_columns
_project_columns(db, columns, rows, ctx_tables) ==
    LET Projected(rc, r) ==
            IF r.err # NoError THEN Selected(r.err, db, <<>>, <<>>)
            ELSE Selected(NoError, db, rc.columns, r.rows)
        Named(rc) ==
            IF rc.err # NoError THEN Selected(rc.err, db, <<>>, <<>>)
            ELSE Projected(rc, ProjectRows([columns |-> columns,
                                            result_columns |-> rc.columns,
                                            ctx_tables |-> ctx_tables], rows, 1, <<>>))
    IN  Named(ResultColumns(columns, ctx_tables, 1, <<>>))

\* lines 214-223: SELECT without FROM, from expression i on; an expression
\* is evaluated without a context against the row built so far
RECURSIVE ConstantSelect(_, _, _, _, _)
ConstantSelect(db, exprs, i, columns, row) ==
    LET Evaluated(r) ==
            IF r.err # NoError THEN Selected(r.err, db, <<>>, <<>>)
            ELSE ConstantSelect(db, exprs, i + 1, Append(columns, ExprStr(exprs[i])),
                                DictSet(row, ExprStr(exprs[i]), r.value))
    IN  IF i > Len(exprs) THEN Selected(NoError, db, columns, <<row>>)
        ELSE Evaluated(evaluate_expr(exprs[i],
                                     [key \in {<<"", n>> : n \in DictKeys(row)}
                                         |-> DictGet(row, key[2])],
                                     <<>>))

\* lines 232-234: the joins from join k on; the result is
\* [err, tables, rows]
RECURSIVE JoinLoop(_, _, _, _, _)
JoinLoop(db, joins, k, ctx_tables, rows) ==
    LET Joined(added, r) ==
            IF r.err # NoError THEN [err |-> r.err, tables |-> added.tables, rows |-> <<>>]
            ELSE JoinLoop(db, joins, k + 1, added.tables, r.rows)
        Added(added) ==
            IF added.err # NoError
            THEN [err |-> added.err, tables |-> ctx_tables, rows |-> <<>>]
            ELSE Joined(added,
                        _execute_join(rows,
                                      DictGet(added.tables,
                                              Lower(effective_name(joins[k].table))),
                                      joins[k], KeyList(added.tables)))
    IN  IF k > Len(joins) THEN [err |-> NoError, tables |-> ctx_tables, rows |-> rows]
        ELSE Added(add_table(db, ctx_tables, joins[k].table))

\* line 238: the rows from row k on that pass WHERE; the result is
\* [err, rows]
RECURSIVE WhereLoop(_, _, _, _, _)
WhereLoop(where, rows, prefixes, k, result) ==
    LET Tested(w) ==
            IF w.err # NoError THEN Rows(w.err, <<>>)
            ELSE WhereLoop(where, rows, prefixes, k + 1,
                           IF w.value THEN Append(result, rows[k]) ELSE result)
    IN  IF k > Len(rows) THEN Rows(NoError, result)
        ELSE Tested(_evaluate_where(where, rows[k].data, prefixes))

\* Executor.execute_select
execute_select(db, stmt) ==
    LET Ordered(ctx_tables, r) ==
            IF r.err # NoError THEN Selected(r.err, db, <<>>, <<>>)
            ELSE _project_columns(db, stmt.columns, ApplyOffsetLimit(r.rows, stmt),
                                  ctx_tables)
        Filtered(ctx_tables, r) ==
            IF r.err # NoError THEN Selected(r.err, db, <<>>, <<>>)
            ELSE Ordered(ctx_tables,
                         IF Len(stmt.order_by) > 0
                         THEN _apply_order_by(r.rows, stmt.order_by, KeyList(ctx_tables))
                         ELSE r)
        Joined(j) ==
            IF j.err # NoError THEN Selected(j.err, db, <<>>, <<>>)
            ELSE Filtered(j.tables,
                          IF stmt.where.kind # "None"
                          THEN WhereLoop(stmt.where, j.rows, KeyList(j.tables), 1, <<>>)
                          ELSE Rows(NoError, j.rows))
        Based(added) ==
            IF added.err # NoError THEN Selected(added.err, db, <<>>, <<>>)
            ELSE Joined(JoinLoop(db, stmt.from_clause.joins, 1, added.tables,
                                 _table_to_rows(DictGet(added.tables,
                                                        Lower(effective_name(
                                                            stmt.from_clause.table))),
                                                effective_name(stmt.from_clause.table))))
    IN  IF ~stmt.from_clause.present THEN ConstantSelect(db, stmt.columns, 1, <<>>, <<>>)
        ELSE Based(add_table(db, <<>>, stmt.from_clause.table))

(***************************************************************************)
(* The tables and the inputs of the model.                                 *)
(***************************************************************************)
\* CREATE TABLE t (id INTEGER PRIMARY KEY, name TEXT NOT NULL)
SchemaUsers ==
    TableSchema("t", <<Column("id", "INTEGER", TRUE, FALSE, FALSE),
                       Column("name", "TEXT", FALSE, FALSE, TRUE)>>)

\* CREATE TABLE t (flag BOOLEAN, code REAL UNIQUE)
SchemaItems ==
    TableSchema("t", <<Column("flag", "BOOLEAN", FALSE, FALSE, FALSE),
                       Column("code", "REAL", FALSE, TRUE, FALSE)>>)

Schemas == {SchemaUsers, SchemaItems}

\* the Python values of the model: None, str, int, float and bool
InputValues ==
    {Null, TextV("1"), IntV(2), RealV(6), RealV(3), TextV("a"), BoolV(TRUE)}

\* the values handed to the key column of the table
KeyValues(schema) ==
    IF schema.columns[1].unique THEN InputValues
    ELSE InputValues \ {TextV("1"), RealV(6)}

\* the values handed to the column that is not the key of the table
OtherValues == {Null, TextV("a"), BoolV(TRUE)}

KeyColumn(schema) == IF schema.columns[1].unique THEN "id" ELSE "code"

OtherColumn(schema) == IF schema.columns[1].unique THEN "name" ELSE "flag"

\* the dicts handed to Table.insert: any subset of the columns, a key in
\* upper case, an unknown key
InsertInputs(schema) ==
    LET k == KeyColumn(schema)
        o == OtherColumn(schema)
    IN  {<<>>}
        \cup {<<<<k, a>>>> : a \in KeyValues(schema)}
        \cup {<<<<o, b>>>> : b \in OtherValues}
        \cup {<<<<k, a>>, <<o, BoolV(TRUE)>>>> : a \in KeyValues(schema)}
        \cup {<<<<k, IntV(2)>>, <<o, b>>>> : b \in OtherValues}
        \cup {<<<<"ID", IntV(2)>>, <<o, TextV("a")>>>>,
              <<<<k, IntV(2)>>, <<"zz", IntV(2)>>, <<o, TextV("a")>>>>}

\* the dicts handed to Table.update, in both orders of their keys
UpdateInputs(schema) ==
    LET k == KeyColumn(schema)
        o == OtherColumn(schema)
    IN  {<<>>}
        \cup {<<<<k, a>>>> : a \in KeyValues(schema)}
        \cup {<<<<o, b>>>> : b \in OtherValues}
        \cup {<<<<k, a>>, <<o, Null>>>> : a \in {Null, IntV(2)}}
        \cup {<<<<o, b>>, <<k, Null>>>> : b \in {Null, TextV("a")}}
        \cup {<<<<k, IntV(2)>>, <<o, TextV("a")>>>>, <<<<o, Null>>, <<k, IntV(2)>>>>,
              <<<<"zz", IntV(2)>>, <<k, RealV(6)>>>>, <<<<k, RealV(6)>>, <<"zz", Null>>>>}

(***************************************************************************)
(* State.  catalog is Catalog._tables and tables is Database._tables, both *)
(* keyed by lower-cased table name.  last is the call just made: the       *)
(* row_id it returned and what it raised or reported.  hist records, per table, the *)
(* row_ids its inserts have returned since the table was created (issued)  *)
(* and since it was last cleared (since), and the row_ids inserted and not *)
(* deleted or cleared since, in the order of their inserts (live).         *)
(***************************************************************************)
NoCall ==
    [op |-> "none", row_id |-> 0, err |-> NoError, found |-> FALSE,
     affected_rows |-> 0, message |-> ""]

\* a call of a Table method
Call(op, row_id, err, found) ==
    [op |-> op, row_id |-> row_id, err |-> err, found |-> found,
     affected_rows |-> 0, message |-> ""]

\* a statement handed to Executor.execute: the error it raised, or the
\* affected_rows and the message of its QueryResult
Executed(op, err, affected_rows, message) ==
    [op |-> op, row_id |-> 0, err |-> err, found |-> FALSE,
     affected_rows |-> affected_rows, message |-> message]

NewHist == [issued |-> {}, since |-> {}, live |-> <<>>]

HistInsert(h, row_id) ==
    [issued |-> h.issued \cup {row_id}, since |-> h.since \cup {row_id},
     live |-> Append(h.live, row_id)]

HistDelete(h, row_id) == [h EXCEPT !.live = SelectSeq(@, LAMBDA r : r # row_id)]

HistClear(h) == [h EXCEPT !.since = {}, !.live = <<>>]

Init ==
    \E schema \in Schemas :
        /\ catalog = [n \in {"t"} |-> schema]
        /\ tables = [n \in {"t"} |-> NewTable(schema)]
        /\ last = NoCall
        /\ hist = [n \in {"t"} |-> NewHist]

\* table.insert(values)
TInsert ==
    LET Returned(r) ==
            /\ tables' = [tables EXCEPT !["t"] = r.table]
            /\ last' = Call("insert", r.row_id, r.err, r.err = NoError)
            /\ hist' = IF r.err = NoError
                       THEN [hist EXCEPT !["t"] = HistInsert(@, r.row_id)]
                       ELSE hist
    IN  /\ tables["t"].next_row_id <= MaxRowId
        /\ \E values \in InsertInputs(tables["t"].schema) :
               Returned(TableInsert(tables["t"], values))
        /\ UNCHANGED catalog

\* table.update(row_id, values), for the row_id of a live row or of no row
TUpdate ==
    LET Returned(row_id, r) ==
            /\ tables' = [tables EXCEPT !["t"] = r.table]
            /\ last' = Call("update", row_id, r.err, r.found)
    IN  /\ \E row_id \in RowIds(tables["t"]) \cup {tables["t"].next_row_id},
              values \in UpdateInputs(tables["t"].schema) :
               Returned(row_id, TableUpdate(tables["t"], row_id, values))
        /\ UNCHANGED <<catalog, hist>>

\* table.delete(row_id), for the row_id of a live row or of no row
TDelete ==
    LET Returned(row_id, r) ==
            /\ tables' = [tables EXCEPT !["t"] = r.table]
            /\ last' = Call("delete", 0, NoError, r.found)
            /\ hist' = IF r.found THEN [hist EXCEPT !["t"] = HistDelete(@, row_id)]
                       ELSE hist
    IN  /\ \E row_id \in RowIds(tables["t"]) \cup {tables["t"].next_row_id} :
               Returned(row_id, TableDelete(tables["t"], row_id))
        /\ UNCHANGED catalog

\* table.clear()
TClear ==
    /\ tables' = [tables EXCEPT !["t"] = TableClear(@)]
    /\ last' = Call("clear", 0, NoError, TRUE)
    /\ hist' = [hist EXCEPT !["t"] = HistClear(@)]
    /\ UNCHANGED catalog

Next == TInsert \/ TUpdate \/ TDelete \/ TClear

Spec == Init /\ [][Next]_vars

(***************************************************************************)
(* The executor: statements run against a database that starts empty.      *)
(***************************************************************************)
Db == [catalog |-> catalog, tables |-> tables]

EmptyMap == [n \in {} |-> Null]

\* (id INT PRIMARY KEY, name TEXT NOT NULL)
UsersColumns ==
    <<ColumnDef("id", "INT", TRUE, FALSE, FALSE), ColumnDef("name", "TEXT", FALSE, FALSE, TRUE)>>

\* (flag BOOL, code REAL UNIQUE)
ItemsColumns ==
    <<ColumnDef("flag", "BOOL", FALSE, FALSE, FALSE), ColumnDef("code", "REAL", FALSE, TRUE, FALSE)>>

\* (id INT PRIMARY KEY, code REAL PRIMARY KEY)
TwoKeysColumns ==
    <<ColumnDef("id", "INT", TRUE, FALSE, FALSE), ColumnDef("code", "REAL", TRUE, FALSE, FALSE)>>

CreateStmts ==
    {CreateTableStmt(name, columns, flag) :
        name \in {"t", "T"}, columns \in {UsersColumns, ItemsColumns, TwoKeysColumns},
        flag \in BOOLEAN}

DropStmts == {DropTableStmt(name, flag) : name \in {"t", "T", "u"}, flag \in BOOLEAN}

\* (1, 'a'), (2, 'a'), (2, NULL), (TRUE, 2), (1)
ValueLists ==
    {<<Literal(IntV(1)), Literal(TextV("a"))>>,
     <<Literal(IntV(2)), Literal(TextV("a"))>>,
     <<Literal(IntV(2)), Literal(Null)>>,
     <<Literal(BoolV(TRUE)), Literal(IntV(2))>>,
     <<Literal(IntV(1))>>}

ValueListSeqs == UNION {[1..k -> ValueLists] : k \in 1..MaxValueLists}

InsertStmts ==
    {InsertStmt("t", <<>>, values) : values \in ValueListSeqs}
    \cup {InsertStmt("T", <<"ID">>, <<<<Literal(IntV(1))>>>>),
          InsertStmt("t", <<"name", "id">>, <<<<Literal(TextV("a")), Literal(IntV(1))>>>>),
          InsertStmt("t", <<>>, <<<<ColumnRef("", "id"), Literal(TextV("a"))>>>>),
          InsertStmt("u", <<>>, <<<<Literal(IntV(1)), Literal(TextV("a"))>>>>)}

\* absent, id = 1, t.name IS NULL, code IS NULL OR flag
Wheres ==
    {NoExpr,
     BinaryExpr(ColumnRef("", "id"), "EQ", Literal(IntV(1))),
     UnaryExpr("IS_NULL", ColumnRef("t", "name")),
     BinaryExpr(UnaryExpr("IS_NULL", ColumnRef("", "code")), "OR", ColumnRef("", "flag"))}

\* SET id = 2;  SET name = NULL;  SET code = 2, flag = NOT flag;  SET name = 'b'
Assignments ==
    {<<<<"id", Literal(IntV(2))>>>>,
     <<<<"name", Literal(Null)>>>>,
     <<<<"code", Literal(IntV(2))>>, <<"flag", UnaryExpr("NOT", ColumnRef("", "flag"))>>>>,
     <<<<"name", Literal(TextV("b"))>>>>}

UpdateStmts ==
    {UpdateStmt("t", a, w) : a \in Assignments, w \in Wheres}
    \cup {UpdateStmt("u", <<<<"id", Literal(IntV(2))>>>>, NoExpr)}

DeleteStmts == {DeleteStmt("T", w) : w \in Wheres} \cup {DeleteStmt("u", NoExpr)}

\* the row_ids a statement's inserts returned: TableInsert returns
\* next_row_id and adds one to it
RECURSIVE IdsFrom(_, _)
IdsFrom(lo, hi) == IF lo >= hi THEN <<>> ELSE <<lo>> \o IdsFrom(lo + 1, hi)

HistOfTable(h, told, tnew) ==
    LET ids == IdsFrom(told.next_row_id, tnew.next_row_id)
    IN  [issued |-> h.issued \cup SeqToSet(ids),
         since |-> h.since \cup SeqToSet(ids),
         live |-> SelectSeq(h.live \o ids, LAMBDA r : r \in RowIds(tnew))]

HistAfter(db) ==
    [n \in DOMAIN db.tables |->
        IF n \in DOMAIN tables THEN HistOfTable(hist[n], tables[n], db.tables[n])
        ELSE NewHist]

Apply(op, r) ==
    /\ catalog' = r.db.catalog
    /\ tables' = r.db.tables
    /\ last' = Executed(op, r.err, r.affected_rows, r.message)
    /\ hist' = HistAfter(r.db)

InitExec ==
    /\ catalog = EmptyMap
    /\ tables = EmptyMap
    /\ last = NoCall
    /\ hist = EmptyMap

ExecCreate == \E stmt \in CreateStmts : Apply("CREATE", execute_create_table(Db, stmt))

ExecDrop == \E stmt \in DropStmts : Apply("DROP", execute_drop_table(Db, stmt))

ExecInsert ==
    \E stmt \in InsertStmts :
        /\ has_table(Db, stmt.table_name)
              => tables[Lower(stmt.table_name)].next_row_id + Len(stmt.values) - 1 <= MaxRowId
        /\ Apply("INSERT", execute_insert(Db, stmt))

ExecUpdate == \E stmt \in UpdateStmts : Apply("UPDATE", execute_update(Db, stmt))

ExecDelete == \E stmt \in DeleteStmts : Apply("DELETE", execute_delete(Db, stmt))

NextExec == ExecCreate \/ ExecDrop \/ ExecInsert \/ ExecUpdate \/ ExecDelete

SpecExec == InitExec /\ [][NextExec]_vars

(***************************************************************************)
(* Properties of table storage.                                            *)
(***************************************************************************)
ValueAt(t, i, c) == RowGet(t.rows[i], c)

\* the row_ids of the live rows holding a value equal to v in column c
Holders(t, c, v) ==
    {t.rows[i].row_id : i \in {k \in 1..Len(t.rows) : PyEq(ValueAt(t, k, c), v)}}

LiveValues(t, c) ==
    {ValueAt(t, i, c) : i \in {k \in 1..Len(t.rows) : ValueAt(t, k, c).t # "null"}}

\* C1: for every UNIQUE or PRIMARY KEY column, no two live rows hold the
\* same non-null value.
UniquenessInvariant ==
    \A n \in DOMAIN tables :
        \A c \in UniqueColumns(tables[n].schema) :
            \A i, j \in 1..Len(tables[n].rows) :
                (i # j /\ ValueAt(tables[n], i, c).t # "null")
                    => ~PyEq(ValueAt(tables[n], i, c), ValueAt(tables[n], j, c))

\* two live rows, and the call just made was rejected for a duplicate
UniquenessWitness ==
    /\ last.op \in {"insert", "update"}
    /\ last.err.kind \in {"PrimaryKeyViolation", "UniqueViolation"}
    /\ \E n \in DOMAIN tables : Len(tables[n].rows) >= 2

\* C2: for every indexed column c and non-null value v, the index's
\* search(v) returns exactly the row_ids of the live rows whose c equals v,
\* and find_by_index(c, v) returns exactly those rows.
IndexConsistency ==
    \A n \in DOMAIN tables :
        \A c \in DOMAIN tables[n].indexes :
            \A v \in LiveValues(tables[n], c) \cup {IntV(2), RealV(4)} :
                /\ SeqToSet(BTreeSearch(tables[n].indexes[c], v)) = Holders(tables[n], c, v)
                /\ {r.row_id : r \in SeqToSet(find_by_index(tables[n], c, v))}
                       = Holders(tables[n], c, v)

\* C4: a Table.insert that raises leaves the table's rows, next_row_id,
\* unique-value sets and indexes unchanged, and raises one of the four
\* errors of the validation loop.
InsertAtomicOnFailure ==
    [][(last'.op = "insert" /\ last'.err # NoError)
          => /\ tables' = tables
             /\ last'.err.kind \in {"NotNullViolation", "DataTypeError",
                                    "PrimaryKeyViolation", "UniqueViolation"}]_vars

\* a rejected insert into a table that holds rows
InsertAtomicWitness ==
    /\ last.op = "insert"
    /\ last.err.kind \in {"DataTypeError", "UniqueViolation", "PrimaryKeyViolation"}
    /\ Len(tables["t"].rows) >= 1

DomainOf(data_type) ==
    CASE data_type = "INTEGER" -> "int"
      [] data_type = "REAL" -> "real"
      [] data_type = "TEXT" -> "text"
      [] data_type = "BOOLEAN" -> "bool"

\* C7: every live row binds every schema column, to null or to a value of
\* the column's declared type; what validate_and_coerce accepts for a type
\* is null or of that type.
TypedRows ==
    /\ \A n \in DOMAIN tables :
        \A i \in 1..Len(tables[n].rows) :
            \A k \in 1..Len(tables[n].schema.columns) :
                LET col == tables[n].schema.columns[k]
                IN  /\ Lower(col.name) \in DOMAIN tables[n].rows[i].data
                    /\ ValueAt(tables[n], i, Lower(col.name)).t
                           \in {"null", DomainOf(col.data_type)}
    /\ \A value \in InputValues \cup {BoolV(FALSE)} :
        \A data_type \in {"INTEGER", "REAL", "TEXT", "BOOLEAN"} :
            validate_and_coerce(value, data_type).ok
                => validate_and_coerce(value, data_type).value.t
                       \in {"null", DomainOf(data_type)}

\* a row holding an integer coerced from the float 3.0 or a text coerced
\* from a bool
TypedRowsWitness ==
    \E i \in 1..Len(tables["t"].rows) :
        \/ /\ "id" \in DOMAIN tables["t"].rows[i].data
           /\ tables["t"].rows[i].data["id"] = IntV(3)
           /\ tables["t"].rows[i].data["name"] = TextV("True")
        \/ /\ "flag" \in DOMAIN tables["t"].rows[i].data
           /\ tables["t"].rows[i].data["flag"] = BoolV(TRUE)
           /\ tables["t"].rows[i].data["code"] = RealV(4)

\* C9: scan, and so the working set of SELECT * FROM T, yields exactly the
\* rows inserted and not deleted, in the order of their inserts.
ScanInsertionOrder ==
    \A n \in DOMAIN tables :
        /\ [i \in 1..Len(scan(tables[n])) |-> scan(tables[n])[i].row_id] = hist[n].live
        /\ [i \in 1..Len(scan(tables[n])) |-> _table_to_rows(tables[n], n)[i].row_ids[n]]
               = hist[n].live

\* an update has just succeeded on a table whose middle row was deleted
ScanOrderWitness ==
    /\ last.op = "update"
    /\ last.err = NoError
    /\ last.found
    /\ hist["t"].live = <<1, 3>>

\* column k of the schema, taken alone, rejects the value the dict binds to
\* it: null where NOT NULL, a value of the wrong type, or a unique value a
\* live row holds
InsertColumnFails(t, normalized, k) ==
    LET col == t.schema.columns[k]
        value == DictGet(normalized, Lower(col.name))
        co == validate_and_coerce(value, col.data_type)
    IN  \/ value.t = "null" /\ col.not_null
        \/ ~co.ok
        \/ col.unique /\ co.value.t # "null" /\ Holders(t, Lower(col.name), co.value) # {}

\* entry p of the dict handed to update, taken alone, is rejected: an
\* unknown column, null where NOT NULL, a value of the wrong type, or a
\* unique value another live row holds
UpdateEntryFails(t, row_id, normalized, p) ==
    \/ ~has_column(t.schema, normalized[p][1])
    \/ LET col == get_column(t.schema, normalized[p][1])
           value == normalized[p][2]
           co == validate_and_coerce(value, col.data_type)
       IN  \/ value.t = "null" /\ col.not_null
           \/ ~co.ok
           \/ /\ col.unique
              /\ co.value.t # "null"
              /\ Holders(t, normalized[p][1], co.value) \ {row_id} # {}

MustNotBeNull(col) == col.not_null \/ col.primary_key

NotNullInvariant ==
    \A n \in DOMAIN tables :
        \A i \in 1..Len(tables[n].rows) :
            \A k \in 1..Len(tables[n].schema.columns) :
                MustNotBeNull(tables[n].schema.columns[k])
                    => ValueAt(tables[n], i, Lower(tables[n].schema.columns[k].name)).t # "null"

\* C6 as claimed: no live row holds null in a NOT NULL or PRIMARY KEY
\* column; every insert that omits such a column or binds it to null, and
\* every update that sets it to null, raises NotNullViolation naming that
\* column.
NotNullAlwaysNamed ==
    /\ NotNullInvariant
    /\ \A n \in DOMAIN tables :
        LET t == tables[n]
        IN  /\ \A values \in InsertInputs(t.schema) :
                LET r == TableInsert(t, values)
                IN  \A k \in 1..Len(t.schema.columns) :
                        (/\ MustNotBeNull(t.schema.columns[k])
                         /\ DictGet(Normalize(values), Lower(t.schema.columns[k].name)).t
                                = "null")
                            => r.err = Error("NotNullViolation", t.schema.columns[k].name)
            /\ \A row_id \in RowIds(t) :
                \A values \in UpdateInputs(t.schema) :
                    LET r == TableUpdate(t, row_id, values)
                        normalized == Normalize(values)
                    IN  \A p \in 1..Len(normalized) :
                            (/\ has_column(t.schema, normalized[p][1])
                             /\ MustNotBeNull(get_column(t.schema, normalized[p][1]))
                             /\ normalized[p][2].t = "null")
                                => r.err = Error("NotNullViolation",
                                                 get_column(t.schema, normalized[p][1]).name)

\* C6 amended: no live row holds null in a NOT NULL or PRIMARY KEY column;
\* every insert that omits such a column or binds it to null, and every
\* update that sets it to null, raises and changes nothing, and what it
\* raises is NotNullViolation naming that column exactly when no column
\* validated before it (schema order for insert, the dict's order for
\* update) is itself rejected.
NotNullFirstFailure ==
    /\ NotNullInvariant
    /\ \A n \in DOMAIN tables :
        LET t == tables[n]
        IN  /\ \A values \in InsertInputs(t.schema) :
                LET r == TableInsert(t, values)
                    normalized == Normalize(values)
                IN  \A k \in 1..Len(t.schema.columns) :
                        (/\ MustNotBeNull(t.schema.columns[k])
                         /\ DictGet(normalized, Lower(t.schema.columns[k].name)).t = "null")
                            => /\ r.err # NoError
                               /\ r.table = t
                               /\ (r.err = Error("NotNullViolation",
                                                 t.schema.columns[k].name))
                                  <=> (\A j \in 1..(k - 1) :
                                           ~InsertColumnFails(t, normalized, j))
            /\ \A row_id \in RowIds(t) :
                \A values \in UpdateInputs(t.schema) :
                    LET r == TableUpdate(t, row_id, values)
                        normalized == Normalize(values)
                    IN  \A p \in 1..Len(normalized) :
                            (/\ has_column(t.schema, normalized[p][1])
                             /\ MustNotBeNull(get_column(t.schema, normalized[p][1]))
                             /\ normalized[p][2].t = "null")
                                => /\ r.err # NoError
                                   /\ r.table = t
                                   /\ (r.err = Error("NotNullViolation",
                                           get_column(t.schema, normalized[p][1]).name))
                                      <=> (\A q \in 1..(p - 1) :
                                               ~UpdateEntryFails(t, row_id, normalized, q))

\* a call was just rejected for a null in the second column of a table
\* that holds rows
NotNullWitness ==
    /\ last.op \in {"insert", "update"}
    /\ last.err = Error("NotNullViolation", "name")
    /\ Len(tables["t"].rows) >= 1

UniqueValuesExact ==
    \A n \in DOMAIN tables :
        \A c \in UniqueColumns(tables[n].schema) :
            tables[n].unique_values[c] = LiveValues(tables[n], c)

IsDuplicateError(err, col) ==
    /\ err.kind = (IF col.primary_key THEN "PrimaryKeyViolation" ELSE "UniqueViolation")
    /\ err.name = col.name

\* C8 as claimed: unique_values[c] is the set of non-null values of c over
\* the live rows; an insert of, or an update of another row to, a non-null
\* value v in a unique column raises UniqueViolation/PrimaryKeyViolation if
\* and only if some live row holds v in that column.
UniqueReservedIff ==
    /\ UniqueValuesExact
    /\ \A n \in DOMAIN tables :
        LET t == tables[n]
        IN  /\ \A values \in InsertInputs(t.schema) :
                LET r == TableInsert(t, values)
                    normalized == Normalize(values)
                IN  \A k \in 1..Len(t.schema.columns) :
                        LET col == t.schema.columns[k]
                            co == validate_and_coerce(
                                      DictGet(normalized, Lower(col.name)), col.data_type)
                        IN  (col.unique /\ co.ok /\ co.value.t # "null")
                                => (IsDuplicateError(r.err, col)
                                       <=> Holders(t, Lower(col.name), co.value) # {})
            /\ \A row_id \in RowIds(t) :
                \A values \in UpdateInputs(t.schema) :
                    LET r == TableUpdate(t, row_id, values)
                        normalized == Normalize(values)
                    IN  \A p \in 1..Len(normalized) :
                            has_column(t.schema, normalized[p][1]) =>
                                LET col == get_column(t.schema, normalized[p][1])
                                    co == validate_and_coerce(normalized[p][2], col.data_type)
                                IN  (col.unique /\ co.ok /\ co.value.t # "null")
                                        => (IsDuplicateError(r.err, col)
                                               <=> Holders(t, Lower(col.name), co.value)
                                                       \ {row_id} # {})

\* C8 amended: unique_values[c] is the set of non-null values of c over the
\* live rows; an insert of, or an update of another row to, a non-null
\* value v in a unique column raises UniqueViolation/PrimaryKeyViolation
\* naming that column if and only if some live row holds v in that column
\* and no column validated before it is itself rejected; when a live row
\* holds v the call raises in every case and changes nothing.
UniqueReservedFirstFailure ==
    /\ UniqueValuesExact
    /\ \A n \in DOMAIN tables :
        LET t == tables[n]
        IN  /\ \A values \in InsertInputs(t.schema) :
                LET r == TableInsert(t, values)
                    normalized == Normalize(values)
                IN  \A k \in 1..Len(t.schema.columns) :
                        LET col == t.schema.columns[k]
                            co == validate_and_coerce(
                                      DictGet(normalized, Lower(col.name)), col.data_type)
                            held == Holders(t, Lower(col.name), co.value) # {}
                        IN  (col.unique /\ co.ok /\ co.value.t # "null")
                                => /\ IsDuplicateError(r.err, col)
                                       <=> (held /\ \A j \in 1..(k - 1) :
                                                       ~InsertColumnFails(t, normalized, j))
                                   /\ held => (r.err # NoError /\ r.table = t)
            /\ \A row_id \in RowIds(t) :
                \A values \in UpdateInputs(t.schema) :
                    LET r == TableUpdate(t, row_id, values)
                        normalized == Normalize(values)
                    IN  \A p \in 1..Len(normalized) :
                            has_column(t.schema, normalized[p][1]) =>
                                LET col == get_column(t.schema, normalized[p][1])
                                    co == validate_and_coerce(normalized[p][2], col.data_type)
                                    held == Holders(t, Lower(col.name), co.value)
                                                \ {row_id} # {}
                                IN  (col.unique /\ co.ok /\ co.value.t # "null")
                                        => /\ IsDuplicateError(r.err, col)
                                               <=> (held /\ \A q \in 1..(p - 1) :
                                                       ~UpdateEntryFails(t, row_id,
                                                                         normalized, q))
                                           /\ held => (r.err # NoError /\ r.table = t)

\* a delete has just released the unique value of one of two rows
UniqueReservedWitness ==
    /\ last.op = "delete"
    /\ last.found
    /\ Len(tables["t"].rows) = 1
    /\ \E c \in DOMAIN tables["t"].unique_values :
           Cardinality(tables["t"].unique_values[c]) = 1

(***************************************************************************)
(* Properties of the executor.                                             *)
(***************************************************************************)
\* C3: a statement that ends in an error leaves the catalog and every
\* table (rows, next_row_id, unique-value sets, indexes) as they were.
StatementAtomicity ==
    [][last'.err # NoError => (catalog' = catalog /\ tables' = tables)]_vars

\* C10: CREATE TABLE IF NOT EXISTS on an existing table returns a result
\* with 0 affected rows and changes nothing; DROP TABLE IF EXISTS on a
\* missing table returns a result and changes nothing, and issuing it a
\* second time changes nothing in any state.
IfExistsGuardsAreNoOps ==
    /\ \A stmt \in CreateStmts :
        (stmt.if_not_exists /\ Lower(stmt.table_name) \in DOMAIN tables)
            => /\ execute_create_table(Db, stmt).err = NoError
               /\ execute_create_table(Db, stmt).affected_rows = 0
               /\ execute_create_table(Db, stmt).db = Db
    /\ \A stmt \in DropStmts :
        /\ (stmt.if_exists /\ Lower(stmt.table_name) \notin DOMAIN tables)
              => /\ execute_drop_table(Db, stmt).err = NoError
                 /\ execute_drop_table(Db, stmt).db = Db
        /\ stmt.if_exists
              => /\ execute_drop_table(execute_drop_table(Db, stmt).db, stmt).err = NoError
                 /\ execute_drop_table(execute_drop_table(Db, stmt).db, stmt).db
                        = execute_drop_table(Db, stmt).db
    /\ last.message = "already exists"
          => last.op = "CREATE" /\ last.err = NoError /\ last.affected_rows = 0
    /\ last.message = "does not exist" => last.op = "DROP" /\ last.err = NoError

\* CREATE TABLE IF NOT EXISTS has just been answered for a table that
\* holds rows
IfExistsWitness ==
    /\ last.op = "CREATE"
    /\ last.message = "already exists"
    /\ \E n \in DOMAIN tables : Len(tables[n].rows) >= 1

(***************************************************************************)
(* Properties of the catalog.                                              *)
(***************************************************************************)
TableNames == {"t", "T", "u"}

\* the schemas Database.create_table may be handed, under every name
SchemasNamed ==
    {TableSchema(name, ColumnsOf(CreateTableStmt(name, columns, FALSE))) :
        name \in TableNames, columns \in {UsersColumns, ItemsColumns}}

\* C11: the catalog and the table map hold the same lower-cased names, each
\* table under the lower-cased name of its schema; creating a schema whose
\* name is present in any letter case fails with TableExists, getting or
\* dropping a name absent in every letter case fails with TableNotFound,
\* and a failed call leaves the catalog and the table map as they were.
CatalogConsistency ==
    /\ DOMAIN catalog = DOMAIN tables
    /\ \A n \in DOMAIN catalog :
        /\ Lower(n) = n
        /\ Lower(catalog[n].name) = n
        /\ tables[n].schema = catalog[n]
    /\ \A schema \in SchemasNamed :
        IF \E n \in DOMAIN catalog : Lower(schema.name) = n
        THEN /\ DbCreateTable(Db, schema).err = Error("TableExists", schema.name)
             /\ DbCreateTable(Db, schema).db = Db
        ELSE DbCreateTable(Db, schema).err = NoError
    /\ \A name \in TableNames :
        IF \E n \in DOMAIN catalog : Lower(name) = n
        THEN /\ DbGetTableError(Db, name) = NoError
             /\ DbDropTable(Db, name).err = NoError
        ELSE /\ DbGetTableError(Db, name) = Error("TableNotFound", name)
             /\ DbDropTable(Db, name).err = Error("TableNotFound", name)
             /\ DbDropTable(Db, name).db = Db
    /\ \A stmt \in DropStmts :
        (~stmt.if_exists /\ Lower(stmt.table_name) \notin DOMAIN catalog)
            => /\ execute_drop_table(Db, stmt).err = Error("TableNotFound", stmt.table_name)
               /\ execute_drop_table(Db, stmt).db = Db
    /\ \A stmt \in InsertStmts :
        Lower(stmt.table_name) \notin DOMAIN catalog
            => /\ execute_insert(Db, stmt).err = Error("TableNotFound", stmt.table_name)
               /\ execute_insert(Db, stmt).db = Db

\* CREATE TABLE T has just failed with TableExists against the table
\* created as t, which holds rows
CatalogWitness ==
    /\ last.op = "CREATE"
    /\ last.err = Error("TableExists", "T")
    /\ "t" \in DOMAIN catalog
    /\ catalog["t"].name = "t"
    /\ Len(tables["t"].rows) >= 1

(***************************************************************************)
(* Expressions: constant SELECT statements run against an empty database.  *)
(***************************************************************************)
\* the call just made was SELECT stmt
Queried(stmt, r) ==
    [op |-> "SELECT", row_id |-> 0, err |-> r.err, found |-> FALSE,
     affected_rows |-> r.affected_rows, message |-> r.message, stmt |-> stmt,
     columns |-> r.columns, rows |-> r.rows]

\* SELECT expr
SelectExpr(expr) == SelectStmt(<<expr>>, NoFrom, NoExpr, <<>>, <<>>, <<>>)

LogicValues == {BoolV(TRUE), BoolV(FALSE), Null}

ComparedValues == {Null, IntV(1), RealV(3), TextV("a"), BoolV(TRUE)}

LikePatterns == {Null, TextV("a%"), TextV("t_u%"), TextV("_%"), TextV("A"), IntV(1)}

Select(stmt, r) ==
    /\ catalog' = r.db.catalog
    /\ tables' = r.db.tables
    /\ last' = Queried(stmt, r)
    /\ UNCHANGED hist

EvalLogic ==
    \E a \in LogicValues, b \in LogicValues, op \in {"AND", "OR"} :
        Select(SelectExpr(BinaryExpr(Literal(a), op, Literal(b))),
               execute_select(Db, SelectExpr(BinaryExpr(Literal(a), op, Literal(b)))))

EvalUnary ==
    \E a \in LogicValues \cup ComparedValues, op \in {"NOT", "IS_NULL", "IS_NOT_NULL"} :
        Select(SelectExpr(UnaryExpr(op, Literal(a))),
               execute_select(Db, SelectExpr(UnaryExpr(op, Literal(a)))))

EvalComparison ==
    \E a \in ComparedValues, b \in ComparedValues,
       op \in {"EQ", "NE", "LT", "LE", "GT", "GE"} :
        Select(SelectExpr(BinaryExpr(Literal(a), op, Literal(b))),
               execute_select(Db, SelectExpr(BinaryExpr(Literal(a), op, Literal(b)))))

EvalLike ==
    \E a \in ComparedValues, b \in LikePatterns :
        Select(SelectExpr(BinaryExpr(Literal(a), "LIKE", Literal(b))),
               execute_select(Db, SelectExpr(BinaryExpr(Literal(a), "LIKE", Literal(b)))))

NextEval == EvalLogic \/ EvalUnary \/ EvalComparison \/ EvalLike

SpecEval == InitExec /\ [][NextEval]_vars

(***************************************************************************)
(* Properties of expression evaluation.                                    *)
(***************************************************************************)
\* the value of the one column of the one row a constant SELECT returned
Answer == DictGet(last.rows[1], last.columns[1])

\* C12: over TRUE, FALSE and NULL, a AND b is FALSE if either is FALSE,
\* else NULL if either is NULL, else TRUE; a OR b is TRUE if either is TRUE,
\* else NULL if either is NULL, else FALSE; NOT NULL is NULL, NOT TRUE is
\* FALSE and NOT FALSE is TRUE; and =, <>, <, <=, >, >= and LIKE return NULL
\* when either operand is NULL.
ThreeValuedLogic ==
    last.op = "SELECT" =>
        LET e == last.stmt.columns[1]
            a == e.args[1].value
            b == e.args[2].value
        IN  /\ (e.op = "AND" /\ {a, b} \subseteq LogicValues) =>
                /\ last.err = NoError
                /\ Answer = IF a = BoolV(FALSE) \/ b = BoolV(FALSE) THEN BoolV(FALSE)
                            ELSE IF a = Null \/ b = Null THEN Null
                            ELSE BoolV(TRUE)
            /\ (e.op = "OR" /\ {a, b} \subseteq LogicValues) =>
                /\ last.err = NoError
                /\ Answer = IF a = BoolV(TRUE) \/ b = BoolV(TRUE) THEN BoolV(TRUE)
                            ELSE IF a = Null \/ b = Null THEN Null
                            ELSE BoolV(FALSE)
            /\ (e.op = "NOT" /\ a \in LogicValues) =>
                /\ last.err = NoError
                /\ Answer = IF a = Null THEN Null
                            ELSE IF a = BoolV(TRUE) THEN BoolV(FALSE)
                            ELSE BoolV(TRUE)
            /\ (e.op \in {"EQ", "NE", "LT", "LE", "GT", "GE", "LIKE"}
                    /\ (a = Null \/ b = Null)) =>
                /\ last.err = NoError
                /\ Answer = Null

\* SELECT NULL AND FALSE has answered FALSE
ThreeValuedWitness ==
    /\ last.op = "SELECT"
    /\ last.stmt = SelectExpr(BinaryExpr(Literal(Null), "AND", Literal(BoolV(FALSE))))
    /\ last.err = NoError
    /\ Answer = BoolV(FALSE)

(***************************************************************************)
(* Queries: one statement run against a table l (id INT, v TEXT) that      *)
(* holds up to MaxRows rows, some with nulls and some alike.               *)
(***************************************************************************)
EmptyDb == [catalog |-> EmptyMap, tables |-> EmptyMap]

LeftColumns ==
    <<ColumnDef("id", "INT", FALSE, FALSE, FALSE), ColumnDef("v", "TEXT", FALSE, FALSE, FALSE)>>

\* (1, 'a'), (2, 'a'), (NULL, 'b'), (1, NULL)
LeftValueLists ==
    {<<Literal(IntV(1)), Literal(TextV("a"))>>,
     <<Literal(IntV(2)), Literal(TextV("a"))>>,
     <<Literal(Null), Literal(TextV("b"))>>,
     <<Literal(IntV(1)), Literal(Null)>>}

SeqsUpTo(S, n) == UNION {[1..k -> S] : k \in 0..n}

\* INSERT INTO name VALUES value_lists, when there is a list to insert
Loaded(db, name, value_lists) ==
    IF value_lists = <<>> THEN db
    ELSE execute_insert(db, InsertStmt(name, <<>>, value_lists)).db

\* CREATE TABLE l (id INT, v TEXT); INSERT INTO l VALUES ...
LeftDb(value_lists) ==
    Loaded(execute_create_table(EmptyDb, CreateTableStmt("l", LeftColumns, FALSE)).db,
           "l", value_lists)

HistOfDb(db) ==
    [n \in DOMAIN db.tables |->
        HistOfTable(NewHist, NewTable(db.catalog[n]), db.tables[n])]

Built(db) ==
    /\ catalog = db.catalog
    /\ tables = db.tables
    /\ last = NoCall
    /\ hist = HistOfDb(db)

InitQuery == \E value_lists \in SeqsUpTo(LeftValueLists, MaxRows) : Built(LeftDb(value_lists))

\* the WHERE clauses about nulls on column c: c = NULL, c IS NULL,
\* c IS NOT NULL, NOT (c = NULL), c = NULL OR c IS NULL, c
NullForms == {"eq", "is", "is_not", "not_eq", "eq_or_is", "bare"}

NullWhere(form, c) ==
    CASE form = "eq" -> BinaryExpr(ColumnRef("", c), "EQ", Literal(Null))
      [] form = "is" -> UnaryExpr("IS_NULL", ColumnRef("", c))
      [] form = "is_not" -> UnaryExpr("IS_NOT_NULL", ColumnRef("", c))
      [] form = "not_eq" -> UnaryExpr("NOT", BinaryExpr(ColumnRef("", c), "EQ", Literal(Null)))
      [] form = "eq_or_is" ->
            BinaryExpr(BinaryExpr(ColumnRef("", c), "EQ", Literal(Null)), "OR",
                       UnaryExpr("IS_NULL", ColumnRef("", c)))
      [] OTHER -> ColumnRef("", c)

NullWheres == {NullWhere(form, c) : form \in NullForms, c \in {"id", "v"}}

\* SELECT * FROM l WHERE where ORDER BY order_by LIMIT limit OFFSET offset
SelectFromL(where, order_by, limit, offset) ==
    SelectStmt(<<StarExpr("")>>, FromClause(TableRef("l", ""), <<>>), where, order_by,
               limit, offset)

WhereSelects == {SelectFromL(where, <<>>, <<>>, <<>>) : where \in NullWheres}

\* id = 1 OR v < 1: truthy on the row (1, NULL), a TypeError of the
\* comparison on every row whose v is a text
TypedWhere ==
    BinaryExpr(BinaryExpr(ColumnRef("", "id"), "EQ", Literal(IntV(1))), "OR",
               BinaryExpr(ColumnRef("", "v"), "LT", Literal(IntV(1))))

\* the WHERE clauses of the UPDATE and DELETE statements: those about
\* nulls, none, and the one that raises on some rows
MutateWheres == NullWheres \cup {NoExpr, TypedWhere}

\* UPDATE l SET v = 'b' WHERE where
WhereUpdates ==
    {UpdateStmt("l", <<<<"v", Literal(TextV("b"))>>>>, where) : where \in MutateWheres}

\* DELETE FROM l WHERE where
WhereDeletes == {DeleteStmt("l", where) : where \in MutateWheres}

Asc(c) == OrderByItem(ColumnRef("", c), "ASC")

Desc(c) == OrderByItem(ColumnRef("", c), "DESC")

OrderBys ==
    {<<Asc("id")>>, <<Desc("id")>>, <<Asc("v")>>, <<Desc("v")>>,
     <<Asc("v"), Desc("id")>>, <<Desc("v"), Asc("id")>>,
     <<Asc("id"), Asc("v")>>, <<Desc("id"), Desc("v")>>}

OrderSelects == {SelectFromL(NoExpr, order_by, <<>>, <<>>) : order_by \in OrderBys}

\* int(token.value) of parse_select, lines 274 and 280: the lexer hands over
\* an int or a float, and int() of a float drops its fraction
ParseCount(number) ==
    IF number.t = "real"
    THEN IF number.v >= 0 THEN number.v \div 2 ELSE 0 - ((0 - number.v) \div 2)
    ELSE number.v

\* the NUMBER tokens after LIMIT: 0, 1, 2, 4, -1, 1.5
LimitNumbers == {IntV(0), IntV(1), IntV(2), IntV(4), IntV(-1), RealV(3)}

\* the NUMBER tokens after OFFSET: 0, 1, 3, -1
OffsetNumbers == {IntV(0), IntV(1), IntV(3), IntV(-1)}

LimitSelects ==
    {SelectFromL(NoExpr, <<>>, limit, offset) :
        limit \in {<<>>} \cup {<<ParseCount(n)>> : n \in LimitNumbers},
        offset \in {<<>>} \cup {<<ParseCount(n)>> : n \in OffsetNumbers}}

SelectStmts == WhereSelects \cup OrderSelects \cup LimitSelects

\* the call just made was the UPDATE or DELETE stmt
Ran(op, stmt, r) ==
    [op |-> op, row_id |-> 0, err |-> r.err, found |-> FALSE,
     affected_rows |-> r.affected_rows, message |-> r.message, stmt |-> stmt,
     columns |-> <<>>, rows |-> <<>>]

Mutate(op, stmt, r) ==
    /\ catalog' = r.db.catalog
    /\ tables' = r.db.tables
    /\ last' = Ran(op, stmt, r)
    /\ hist' = HistAfter(r.db)

QuerySelect ==
    /\ last = NoCall
    /\ \E stmt \in SelectStmts : Select(stmt, execute_select(Db, stmt))

QueryUpdate ==
    /\ last = NoCall
    /\ \E stmt \in WhereUpdates : Mutate("UPDATE", stmt, execute_update(Db, stmt))

QueryDelete ==
    /\ last = NoCall
    /\ \E stmt \in WhereDeletes : Mutate("DELETE", stmt, execute_delete(Db, stmt))

NextQuery == QuerySelect \/ QueryUpdate \/ QueryDelete

SpecQuery == InitQuery /\ [][NextQuery]_vars

(***************************************************************************)
(* Properties of queries.                                                  *)
(***************************************************************************)
\* the row SELECT * FROM l returns for a row of l
StarRow(row) == <<<<"l.id", row.data["id"]>>, <<"l.v", row.data["v"]>>>>

\* what SQL says of a WHERE clause about nulls on a column holding value
NullPasses(form, value) ==
    CASE form = "eq" -> FALSE
      [] form = "is" -> value = Null
      [] form = "is_not" -> value # Null
      [] form = "not_eq" -> FALSE
      [] form = "eq_or_is" -> value = Null
      [] OTHER -> value # Null /\ value \notin {IntV(0), TextV(""), BoolV(FALSE)}

\* C13: SELECT, UPDATE and DELETE act on exactly the rows whose WHERE
\* predicate is truthy and not null: WHERE c = NULL on no row, WHERE c IS
\* NULL on the rows whose c is null, WHERE c IS NOT NULL on the others.
WhereNullIsFalse ==
    [][\A form \in NullForms, c \in {"id", "v"} :
          LET rows == tables["l"].rows
              passing == SelectSeq(rows, LAMBDA row : NullPasses(form, row.data[c]))
          IN  /\ (last'.op = "SELECT"
                     /\ last'.stmt = SelectFromL(NullWhere(form, c), <<>>, <<>>, <<>>))
                  => /\ last'.err = NoError
                     /\ last'.rows = [i \in 1..Len(passing) |-> StarRow(passing[i])]
              /\ (last'.op = "UPDATE"
                     /\ last'.stmt
                            = UpdateStmt("l", <<<<"v", Literal(TextV("b"))>>>>,
                                         NullWhere(form, c)))
                  => /\ last'.err = NoError
                     /\ last'.affected_rows = Len(passing)
                     /\ tables'["l"].rows
                            = [i \in 1..Len(rows) |->
                                  IF NullPasses(form, rows[i].data[c])
                                  THEN [rows[i] EXCEPT !.data["v"] = TextV("b")]
                                  ELSE rows[i]]
              /\ (last'.op = "DELETE" /\ last'.stmt = DeleteStmt("l", NullWhere(form, c)))
                  => /\ last'.err = NoError
                     /\ last'.affected_rows = Len(passing)
                     /\ tables'["l"].rows
                            = SelectSeq(rows,
                                        LAMBDA row : ~NullPasses(form, row.data[c]))]_vars

\* DELETE FROM l WHERE v IS NULL has removed one of three rows
WhereNullWitness ==
    /\ last.op = "DELETE"
    /\ last.stmt = DeleteStmt("l", NullWhere("is", "v"))
    /\ last.affected_rows = 1
    /\ Len(tables["l"].rows) = 2

\* the place SQL gives value a against value b under one ORDER BY item:
\* ascending with nulls last for ASC, nulls first and descending for DESC
ItemOrder(direction, a, b) ==
    IF a = Null /\ b = Null THEN 0
    ELSE IF a = Null THEN IF direction = "ASC" THEN 1 ELSE -1
    ELSE IF b = Null THEN IF direction = "ASC" THEN -1 ELSE 1
    ELSE IF PyLt(a, b) THEN IF direction = "ASC" THEN -1 ELSE 1
    ELSE IF PyLt(b, a) THEN IF direction = "ASC" THEN 1 ELSE -1
    ELSE 0

\* the value row holds for ORDER BY item k
ItemValue(order_by, k, row) == row.data[Lower(order_by[k].column.column)]

\* row a comes before row b: the first item that tells them apart does
ComesBefore(order_by, a, b) ==
    \E k \in 1..Len(order_by) :
        /\ ItemOrder(order_by[k].direction, ItemValue(order_by, k, a),
                     ItemValue(order_by, k, b)) < 0
        /\ \A m \in 1..(k - 1) :
            ItemOrder(order_by[m].direction, ItemValue(order_by, m, a),
                      ItemValue(order_by, m, b)) = 0

\* the position of row i of the working set in its stable multi-key sort:
\* behind the rows that come before it and the earlier rows no item tells
\* apart from it
StablePlace(rows, order_by, i) ==
    1 + Cardinality({j \in 1..Len(rows) :
                        \/ ComesBefore(order_by, rows[j], rows[i])
                        \/ j < i /\ ~ComesBefore(order_by, rows[i], rows[j])})

\* C14: ORDER BY returns the working set in its stable multi-key order: a
\* permutation in which, item by item, ASC lists non-null values ascending
\* and nulls last, DESC lists nulls first and non-null values descending,
\* a later item breaks the ties of the earlier ones, and rows alike on every
\* item keep their working-set order.
OrderByStableSort ==
    (last.op = "SELECT" /\ last.stmt \in OrderSelects) =>
        /\ last.err = NoError
        /\ Len(last.rows) = Len(tables["l"].rows)
        /\ \A i \in 1..Len(tables["l"].rows) :
            /\ StablePlace(tables["l"].rows, last.stmt.order_by, i) \in 1..Len(last.rows)
            /\ last.rows[StablePlace(tables["l"].rows, last.stmt.order_by, i)]
                   = StarRow(tables["l"].rows[i])

\* SELECT * FROM l ORDER BY v ASC, id DESC over (1, 'a'), (1, NULL), (2, 'a')
\* has returned (2, 'a'), (1, 'a'), (1, NULL)
OrderByWitness ==
    /\ last.op = "SELECT"
    /\ last.stmt = SelectFromL(NoExpr, <<Asc("v"), Desc("id")>>, <<>>, <<>>)
    /\ Len(tables["l"].rows) = 3
    /\ tables["l"].rows[2].data["v"] = Null
    /\ last.rows = <<<<<<"l.id", IntV(2)>>, <<"l.v", TextV("a")>>>>,
                     <<<<"l.id", IntV(1)>>, <<"l.v", TextV("a")>>>>,
                     <<<<"l.id", IntV(1)>>, <<"l.v", Null>>>>>>

\* the smaller and the larger of two integers
Min(a, b) == IF a < b THEN a ELSE b

Max(a, b) == IF a > b THEN a ELSE b

\* the rows SQL keeps of n rows after OFFSET offset and LIMIT limit
KeptRows(n, limit, offset) ==
    IF limit = <<>> THEN Max(0, n - (IF offset = <<>> THEN 0 ELSE offset[1]))
    ELSE Min(limit[1], Max(0, n - (IF offset = <<>> THEN 0 ELSE offset[1])))

\* C15: for every LIMIT l and OFFSET o the parser accepts, the result is
\* the working set without its first o rows, cut to at most l rows: exactly
\* min(l, max(0, n - o)) rows, a contiguous slice in the same order; a
\* missing OFFSET drops nothing and a missing LIMIT keeps the rest.
LimitOffsetSlice ==
    (last.op = "SELECT" /\ last.stmt \in LimitSelects) =>
        LET rows == tables["l"].rows
            o == IF last.stmt.offset = <<>> THEN 0 ELSE last.stmt.offset[1]
        IN  /\ last.err = NoError
            /\ Len(last.rows) = KeptRows(Len(rows), last.stmt.limit, last.stmt.offset)
            /\ \A i \in 1..Len(last.rows) :
                /\ o + i \in 1..Len(rows)
                /\ last.rows[i] = StarRow(rows[o + i])

\* the same for the counts that are not negative
LimitOffsetSliceOfCounts ==
    (/\ last.op = "SELECT"
     /\ last.stmt \in LimitSelects
     /\ \A count \in {last.stmt.limit, last.stmt.offset} : count = <<>> \/ count[1] >= 0)
        => LimitOffsetSlice

(***************************************************************************)
(* Joins: one SELECT run against tables l (id INT, v TEXT) and             *)
(* r (id INT, w TEXT) of up to MaxLeftRows and MaxRightRows rows.          *)
(***************************************************************************)
RightColumns ==
    <<ColumnDef("id", "INT", FALSE, FALSE, FALSE), ColumnDef("w", "TEXT", FALSE, FALSE, FALSE)>>

\* (1, 'a'), (2, 'a'), (NULL, 'b')
JoinLeftValueLists ==
    {<<Literal(IntV(1)), Literal(TextV("a"))>>,
     <<Literal(IntV(2)), Literal(TextV("a"))>>,
     <<Literal(Null), Literal(TextV("b"))>>}

\* (1, 'a'), (3, NULL), (NULL, 'b')
RightValueLists ==
    {<<Literal(IntV(1)), Literal(TextV("a"))>>,
     <<Literal(IntV(3)), Literal(Null)>>,
     <<Literal(Null), Literal(TextV("b"))>>}

\* CREATE TABLE l ...; CREATE TABLE r ...; INSERT INTO l ...; INSERT INTO r ...
JoinDb(left_lists, right_lists) ==
    Loaded(Loaded(execute_create_table(
                      execute_create_table(EmptyDb,
                                           CreateTableStmt("l", LeftColumns, FALSE)).db,
                      CreateTableStmt("r", RightColumns, FALSE)).db,
                  "l", left_lists),
           "r", right_lists)

InitJoin ==
    \E left_lists \in SeqsUpTo(JoinLeftValueLists, MaxLeftRows),
       right_lists \in SeqsUpTo(RightValueLists, MaxRightRows) :
        Built(JoinDb(left_lists, right_lists))

\* the ON conditions: l.id = r.id, l.v = r.w, absent
OnForms == {"id", "text", "none"}

OnCondition(form) ==
    CASE form = "id" -> BinaryExpr(ColumnRef("l", "id"), "EQ", ColumnRef("r", "id"))
      [] form = "text" -> BinaryExpr(ColumnRef("l", "v"), "EQ", ColumnRef("r", "w"))
      [] OTHER -> NoExpr

\* SELECT columns FROM l <join_type> JOIN r ON condition ORDER BY order_by
SelectJoin(columns, join_type, condition, order_by) ==
    SelectStmt(columns,
               FromClause(TableRef("l", ""),
                          <<JoinClause(join_type, TableRef("r", ""), condition)>>),
               NoExpr, order_by, <<>>, <<>>)

\* the select lists *, and l.id, r.w
StarList == <<StarExpr("")>>

QualifiedList == <<ColumnRef("l", "id"), ColumnRef("r", "w")>>

JoinSelects ==
    {SelectJoin(columns, join_type, OnCondition(form), <<>>) :
        columns \in {StarList, QualifiedList}, join_type \in {"INNER", "LEFT", "RIGHT"},
        form \in OnForms}
    \cup {SelectJoin(StarList, "CROSS", NoExpr, <<>>),
          SelectJoin(StarList, "RIGHT", OnCondition("id"),
                     <<OrderByItem(ColumnRef("l", "id"), "ASC")>>)}

\* SELECT column FROM l, FROM l AS a, FROM l <join_type> JOIN r ON l.id = r.id
ResolvedRefs ==
    {ColumnRef("", "id"), ColumnRef("", "v"), ColumnRef("", "W"), ColumnRef("", "zz"),
     ColumnRef("l", "id"), ColumnRef("L", "ID"), ColumnRef("r", "v"), ColumnRef("a", "id")}

ResolveFroms ==
    {FromClause(TableRef("l", ""), <<>>), FromClause(TableRef("l", "a"), <<>>)}
    \cup {FromClause(TableRef("l", ""),
                     <<JoinClause(join_type, TableRef("r", ""), OnCondition("id"))>>) :
             join_type \in {"LEFT", "RIGHT"}}

ResolveSelects ==
    {SelectStmt(<<column>>, from_clause, NoExpr, <<>>, <<>>, <<>>) :
        column \in ResolvedRefs, from_clause \in ResolveFroms}

JoinQuery ==
    /\ last = NoCall
    /\ \E stmt \in JoinSelects : Select(stmt, execute_select(Db, stmt))

ResolveQuery ==
    /\ last = NoCall
    /\ \E stmt \in ResolveSelects : Select(stmt, execute_select(Db, stmt))

NextJoin == JoinQuery \/ ResolveQuery

SpecJoin == InitJoin /\ [][NextJoin]_vars

(***************************************************************************)
(* Properties of joins.                                                    *)
(***************************************************************************)
\* what SQL says of an ON condition on a left and a right row: a comparison
\* with a null on either side does not hold
OnHolds(form, left, right) ==
    CASE form = "id" ->
            left["id"] # Null /\ right["id"] # Null /\ left["id"] = right["id"]
      [] form = "text" -> left["v"] # Null /\ right["w"] # Null /\ left["v"] = right["w"]
      [] OTHER -> TRUE

NullLeftHalf == [c \in {"id", "v"} |-> Null]

NullRightHalf == [c \in {"id", "w"} |-> Null]

\* the result row of a left and a right half under a select list
JoinedRow(columns, left, right) ==
    IF columns = StarList
    THEN <<<<"l.id", left["id"]>>, <<"l.v", left["v"]>>, <<"r.id", right["id"]>>,
           <<"r.w", right["w"]>>>>
    ELSE <<<<"l.id", left["id"]>>, <<"r.w", right["w"]>>>>

RECURSIVE Flatten(_, _)
Flatten(seqs, i) == IF i > Len(seqs) THEN <<>> ELSE seqs[i] \o Flatten(seqs, i + 1)

\* the right rows that match left row i, in the order of the right table
MatchesOf(form, L, R, i) ==
    SelectSeq(R, LAMBDA right : OnHolds(form, L[i].data, right.data))

\* the matched pairs in left-major order; with padded, a left row without a
\* match gives one row whose right half is null
ForwardRows(columns, form, L, R, padded) ==
    Flatten([i \in 1..Len(L) |->
                IF MatchesOf(form, L, R, i) = <<>>
                THEN IF padded THEN <<JoinedRow(columns, L[i].data, NullRightHalf)>>
                     ELSE <<>>
                ELSE [k \in 1..Len(MatchesOf(form, L, R, i)) |->
                         JoinedRow(columns, L[i].data, MatchesOf(form, L, R, i)[k].data)]],
            1)

MatchingPairs(form, L, R) ==
    {p \in (1..Len(L)) \X (1..Len(R)) : OnHolds(form, L[p[1]].data, R[p[2]].data)}

\* C16: an INNER JOIN returns, in left-major order, every merged pair whose
\* ON condition is truthy (null is falsy, a missing ON is true); a LEFT
\* JOIN returns these and, for each left row without a match, one row of
\* the left row and every column of r bound to null: every left row
\* appears, and the result has (matching pairs) + (unmatched left rows)
\* rows.
LeftJoinSemantics ==
    \A columns \in {StarList, QualifiedList}, form \in OnForms :
        LET L == tables["l"].rows
            R == tables["r"].rows
        IN  /\ (last.op = "SELECT"
                   /\ last.stmt = SelectJoin(columns, "INNER", OnCondition(form), <<>>))
                => /\ last.err = NoError
                   /\ last.rows = ForwardRows(columns, form, L, R, FALSE)
            /\ (last.op = "SELECT"
                   /\ last.stmt = SelectJoin(columns, "LEFT", OnCondition(form), <<>>))
                => /\ last.err = NoError
                   /\ last.rows = ForwardRows(columns, form, L, R, TRUE)
                   /\ Len(last.rows)
                          = Cardinality(MatchingPairs(form, L, R))
                            + Cardinality({i \in 1..Len(L) :
                                              MatchesOf(form, L, R, i) = <<>>})

\* SELECT * FROM l LEFT JOIN r ON l.id = r.id has returned a matched pair
\* and a left row padded with nulls
LeftJoinWitness ==
    /\ last.op = "SELECT"
    /\ last.stmt = SelectJoin(StarList, "LEFT", OnCondition("id"), <<>>)
    /\ Len(tables["r"].rows) = 2
    /\ last.rows = <<<<<<"l.id", IntV(1)>>, <<"l.v", TextV("a")>>, <<"r.id", IntV(1)>>,
                       <<"r.w", TextV("a")>>>>,
                     <<<<"l.id", IntV(2)>>, <<"l.v", TextV("a")>>, <<"r.id", Null>>,
                       <<"r.w", Null>>>>>>

\* the right rows no left row matches, each with a null left half
UnmatchedRightRows(columns, form, L, R) ==
    LET unmatched ==
            SelectSeq(R, LAMBDA right :
                            \A i \in 1..Len(L) : ~OnHolds(form, L[i].data, right.data))
    IN  [k \in 1..Len(unmatched) |-> JoinedRow(columns, NullLeftHalf, unmatched[k].data)]

\* C17: a RIGHT JOIN returns the matched pairs in left-major order and
\* then, for each right row no left row matches, one row of the right row
\* and every left column bound to null, also when the left working set is
\* empty: selecting or ordering by a qualified left column gives NULL on
\* such a row, not an error, and every right row appears.
RightJoinSemantics ==
    /\ \A columns \in {StarList, QualifiedList}, form \in OnForms :
        (last.op = "SELECT"
            /\ last.stmt = SelectJoin(columns, "RIGHT", OnCondition(form), <<>>))
            => /\ last.err = NoError
               /\ last.rows
                      = ForwardRows(columns, form, tables["l"].rows, tables["r"].rows, FALSE)
                        \o UnmatchedRightRows(columns, form, tables["l"].rows,
                                              tables["r"].rows)
    /\ (last.op = "SELECT" /\ Len(last.stmt.order_by) > 0) => last.err = NoError

\* the same for a left working set that has a row
RightJoinOfLeftRows == Len(tables["l"].rows) > 0 => RightJoinSemantics

\* the tables in scope and the working set of a FROM clause: what
\* execute_select holds before WHERE; [err, tables, rows]
WorkingSet(db, from_clause) ==
    LET Based(added) ==
            JoinLoop(db, from_clause.joins, 1, added.tables,
                     _table_to_rows(DictGet(added.tables,
                                            Lower(effective_name(from_clause.table))),
                                    effective_name(from_clause.table)))
    IN  Based(add_table(db, <<>>, from_clause.table))

\* the prefixes in scope whose table has the column
PrefixesWith(ctx_tables, column) ==
    {ctx_tables[k][1] : k \in {n \in 1..Len(ctx_tables) :
                                  has_column(ctx_tables[n][2].schema, column)}}

\* what the claim says of reference ref on a row of working set ws, against
\* the answer r of resolve_column
ResolvesAsClaimed(ref, ws, row, r) ==
    IF ref.table # ""
    THEN IF <<Lower(ref.table), Lower(ref.column)>> \in DOMAIN row
         THEN r = Value(row[<<Lower(ref.table), Lower(ref.column)>>])
         ELSE r = Raise("ColumnNotFound", ref.column)
    ELSE IF PrefixesWith(ws.tables, ref.column) = {}
         THEN r = Raise("ColumnNotFound", ref.column)
    ELSE IF Cardinality(PrefixesWith(ws.tables, ref.column)) > 1
         THEN r = Raise("AmbiguousColumn", ref.column)
    ELSE \E p \in PrefixesWith(ws.tables, ref.column) :
            /\ <<p, Lower(ref.column)>> \in DOMAIN row
            /\ r = Value(row[<<p, Lower(ref.column)>>])

ResolutionIn(from_clauses) ==
    \A from_clause \in from_clauses, ref \in ResolvedRefs :
        LET ws == WorkingSet(Db, from_clause)
        IN  /\ \A i \in 1..Len(ws.rows) :
                ResolvesAsClaimed(ref, ws, ws.rows[i].data,
                                  resolve_column(ref, ws.rows[i].data, KeyList(ws.tables)))
            /\ (/\ last.op = "SELECT"
                /\ last.stmt = SelectStmt(<<ref>>, from_clause, NoExpr, <<>>, <<>>, <<>>)
                /\ Len(ws.rows) > 0)
                   => last.err = resolve_column(ref, ws.rows[1].data, KeyList(ws.tables)).err

\* C18: T.c resolves to the value the row binds under the lower-cased key
\* t.c and fails with ColumnNotFound when the key is absent; c resolves
\* over the tables in scope: the one match, ColumnNotFound when no table in
\* scope has c, AmbiguousColumn when more than one has.
ColumnResolution == ResolutionIn(ResolveFroms)

\* the same for the FROM clauses without a RIGHT JOIN
ColumnResolutionOfFullRows ==
    ResolutionIn({from_clause \in ResolveFroms :
                     \A k \in 1..Len(from_clause.joins) :
                         from_clause.joins[k].join_type # "RIGHT"})


(***************************************************************************)
(* One B-tree on its own.  tables holds the BTree object, catalog is       *)
(* empty, last is the call just made with what it returned, and hist       *)
(* records the number of inserts made, the row_ids they used, whether no   *)
(* delete has been made yet, and per key the row_ids inserted under it and *)
(* not deleted since (live), in the order of their inserts.                *)
(***************************************************************************)
TreeOrders == 3..MaxOrder

TreeKeys == {IntV(n) : n \in 1..MaxKey}

TreeRowIds == 1..MaxTreeRowId

\* a call of a BTree method: found is what delete returned, row_ids what
\* search returned, insert_only whether no delete preceded the call, size
\* what len() was before the call, absent whether search(key) found nothing
\* before it, fresh whether row_id had never been inserted and stored
\* whether the pair (key, row_id) was live before the call.  round_trip
\* says that the call undoes the call before it, the insert of an absent
\* key under a fresh row_id, and start_size is what len() was before that
\* insert.
TreeCall(op, key, row_id, found, row_ids) ==
    LET Undoes(before) ==
            /\ op = "delete"
            /\ before.op = "insert"
            /\ before.key = key
            /\ before.row_id = row_id
            /\ before.absent
            /\ before.fresh
    IN  [op |-> op, key |-> key, row_id |-> row_id, found |-> found,
         row_ids |-> row_ids, insert_only |-> hist.insert_only,
         size |-> BTreeLen(tables),
         absent |-> BTreeSearch(tables, key) = <<>>,
         fresh |-> row_id \notin hist.used,
         stored |-> ListContains(hist.live[key], row_id),
         round_trip |-> Undoes(last),
         start_size |-> IF Undoes(last) THEN last.size ELSE 0]

InitTree ==
    \E order \in TreeOrders :
        /\ catalog = EmptyMap
        /\ tables = BTree(order)
        /\ last = NoCall
        /\ hist = [inserts |-> 0, used |-> {}, insert_only |-> TRUE,
                   live |-> [key \in TreeKeys |-> <<>>]]

\* btree.insert(key, row_id)
TreeInsert ==
    \E key \in TreeKeys, row_id \in TreeRowIds :
        /\ hist.inserts < MaxInserts
        /\ tables' = BTreeInsert(tables, key, row_id)
        /\ last' = TreeCall("insert", key, row_id, FALSE, <<>>)
        /\ hist' = [hist EXCEPT !.inserts = @ + 1,
                                !.used = @ \cup {row_id},
                                !.live[key] = Append(@, row_id)]
        /\ UNCHANGED catalog

\* btree.search(key)
TreeSearch ==
    \E key \in TreeKeys :
        /\ last' = TreeCall("search", key, 0, FALSE, BTreeSearch(tables, key))
        /\ UNCHANGED <<catalog, tables, hist>>

\* btree.delete(key, row_id)
TreeDelete ==
    LET Returned(key, row_id, r) ==
            /\ tables' = r.tree
            /\ last' = TreeCall("delete", key, row_id, r.deleted, <<>>)
            /\ hist' = [hist EXCEPT
                            !.insert_only = FALSE,
                            !.live[key] = IF r.deleted THEN ListRemove(@, row_id)
                                          ELSE @]
    IN  /\ \E key \in TreeKeys, row_id \in TreeRowIds :
               Returned(key, row_id, BTreeDelete(tables, key, row_id))
        /\ UNCHANGED catalog

\* the bounds of a range search: none, or the middle key
RangeBounds == {Null, IntV(2)}

\* a call of range_search with what it returned
RangeCall(min_key, max_key, pairs) ==
    [op |-> "range", min_key |-> min_key, max_key |-> max_key, pairs |-> pairs,
     insert_only |-> hist.insert_only]

\* btree.range_search(min_key, max_key)
TreeRange ==
    \E min_key \in RangeBounds, max_key \in RangeBounds :
        /\ last' = RangeCall(min_key, max_key, BTreeRangeSearch(tables, min_key, max_key))
        /\ UNCHANGED <<catalog, tables, hist>>

NextTree == TreeInsert \/ TreeSearch \/ TreeDelete \/ TreeRange

SpecTree == InitTree /\ [][NextTree]_vars

(***************************************************************************)
(* Properties of the B-tree.                                               *)
(***************************************************************************)
\* how many times x occurs in the list s
Occurrences(s, x) == Cardinality({j \in 1..Len(s) : s[j] = x})

\* C19: after inserts only, search(k) returns each row_id as many times as
\* it was inserted under k, and delete(k, r) then returns true for each
\* pair (k, r) that was inserted.
DuplicateKeysFound ==
    /\ (last.op = "search" /\ last.insert_only)
           => \A row_id \in TreeRowIds :
                  Occurrences(last.row_ids, row_id)
                      = Occurrences(hist.live[last.key], row_id)
    /\ (last.op = "delete" /\ last.insert_only /\ last.stored) => last.found

\* the keys of a subtree, in no order
RECURSIVE KeysBelow(_)
KeysBelow(node) ==
    {node.keys[j] : j \in 1..Len(node.keys)}
        \cup UNION {KeysBelow(node.children[c]) : c \in 1..Len(node.children)}

\* the depths at which the leaves of a subtree lie
RECURSIVE LeafDepths(_, _)
LeafDepths(node, depth) ==
    IF node.leaf THEN {depth}
    ELSE UNION {LeafDepths(node.children[c], depth + 1) : c \in 1..Len(node.children)}

RECURSIVE SearchTreeShape(_)
SearchTreeShape(node) ==
    /\ \A j \in 1..(Len(node.keys) - 1) : _compare(node.keys[j], node.keys[j + 1]) < 0
    /\ ~node.leaf =>
           /\ Len(node.children) = Len(node.keys) + 1
           /\ \A j \in 1..Len(node.keys) :
                  /\ \A k \in KeysBelow(node.children[j]) : _compare(k, node.keys[j]) <= 0
                  /\ \A k \in KeysBelow(node.children[j + 1]) :
                         _compare(k, node.keys[j]) >= 0
           /\ \A c \in 1..Len(node.children) : SearchTreeShape(node.children[c])

\* C20: after any inserts and deletes every internal node has one more
\* child than keys, the keys of a node are strictly ordered, each separator
\* lies between the keys of the children on its two sides, and all leaves
\* are at the same depth.
ShapeInvariant ==
    /\ SearchTreeShape(tables.root)
    /\ Cardinality(LeafDepths(tables.root, 0)) = 1

\* the same of a tree that was built by inserts of distinct keys only
ShapeOfDistinctInserts ==
    (hist.insert_only /\ \A key \in TreeKeys : Len(hist.live[key]) <= 1)
        => ShapeInvariant

\* the nodes of a subtree, the node itself included
RECURSIVE NodesBelow(_)
NodesBelow(node) ==
    {node} \cup UNION {NodesBelow(node.children[c]) : c \in 1..Len(node.children)}

\* the nodes of the tree other than its root
NonRootNodes(bt) ==
    UNION {NodesBelow(bt.root.children[c]) : c \in 1..Len(bt.root.children)}

\* C21: after inserts only, every node other than the root holds at least
\* floor((order - 1) / 2) keys.
MinimumOccupancy ==
    hist.insert_only
        => \A node \in NonRootNodes(tables) : Len(node.keys) >= min_keys(tables)

\* the same of the trees of even order
MinimumOccupancyOfEvenOrders ==
    (hist.insert_only /\ tables.order % 2 = 0)
        => \A node \in NonRootNodes(tables) : Len(node.keys) >= min_keys(tables)

\* the row_ids stored in the key slots of a subtree, counted over its
\* leaves only or over all of its nodes
RECURSIVE SlotLengths(_, _)
SlotLengths(node, leaves_only) ==
    LET Sum(s) ==
            LET F[j \in 0..Len(s)] == IF j = 0 THEN 0 ELSE F[j - 1] + s[j]
            IN  F[Len(s)]
    IN  (IF leaves_only /\ ~node.leaf THEN 0
         ELSE Sum([j \in 1..Len(node.values) |-> Len(node.values[j])]))
            + Sum([c \in 1..Len(node.children) |->
                      SlotLengths(node.children[c], leaves_only)])

\* C22: after any inserts and deletes, len(btree) is the sum of the lengths
\* of the row_id lists of all leaf key slots.
LengthLaw == BTreeLen(tables) = SlotLengths(tables.root, TRUE)

\* the same with the key slots of the internal nodes counted as well
LengthLawOfAllSlots == BTreeLen(tables) = SlotLengths(tables.root, FALSE)

\* and of the trees no delete was made on
LengthLawOfInserts == hist.insert_only => LengthLawOfAllSlots

MaximumOccupancy ==
    \A node \in NodesBelow(tables.root) :
        /\ Len(node.keys) <= max_keys(tables)
        /\ Len(node.values) = Len(node.keys)
        /\ \A j \in 1..Len(node.values) : node.values[j] # <<>>

\* a tree with a full node below an internal root, after a delete that
\* emptied a row_id list
MaximumOccupancyWitness ==
    /\ last.op = "delete"
    /\ last.found
    /\ BTreeSearch(tables, last.key) = <<>>
    /\ ~tables.root.leaf
    /\ \E node \in NonRootNodes(tables) : Len(node.keys) = max_keys(tables)

\* the live pairs of the keys 1..n that lie within the bounds, by key
\* ascending and for one key in the order of their inserts
RECURSIVE LiveInRange(_, _, _)
LiveInRange(n, min_key, max_key) ==
    IF n = 0 THEN <<>>
    ELSE LiveInRange(n - 1, min_key, max_key)
             \o (IF /\ min_key.t = "null" \/ n >= min_key.v
                    /\ max_key.t = "null" \/ n <= max_key.v
                 THEN [j \in 1..Len(hist.live[IntV(n)]) |->
                          <<IntV(n), hist.live[IntV(n)][j]>>]
                 ELSE <<>>)

\* C24: range_search(min, max), either bound optional, returns one pair for
\* each live entry whose key lies within the inclusive bounds and nothing
\* else, by key ascending and for equal keys in the order of the inserts.
RangeSearchExact ==
    last.op = "range" => last.pairs = LiveInRange(MaxKey, last.min_key, last.max_key)

\* the same of a tree built by inserts of distinct keys
RangeSearchOfDistinctInserts ==
    (/\ last.op = "range"
     /\ last.insert_only
     /\ \A key \in TreeKeys : Len(hist.live[key]) <= 1)
        => last.pairs = LiveInRange(MaxKey, last.min_key, last.max_key)

\* C28: delete(k, r) returns true exactly when the pair (k, r) is stored; it
\* then takes that one pair away from what search(k) returns; it leaves
\* search(k') as it was for every other key k', and leaves the tree as it
\* was when it returns false.
DeleteTouchesOwnEntry ==
    [][last'.op = "delete"
           => /\ last'.found <=> last'.stored
              /\ \A key \in TreeKeys \ {last'.key} :
                     BTreeSearch(tables', key) = BTreeSearch(tables, key)
              /\ last'.found
                     => \A row_id \in TreeRowIds :
                            Occurrences(BTreeSearch(tables', last'.key), row_id)
                                = Occurrences(BTreeSearch(tables, last'.key), row_id)
                                      - (IF row_id = last'.row_id THEN 1 ELSE 0)
              /\ ~last'.found => tables' = tables]_vars

\* the same of the deletes of a key that lies in a leaf of a tree on which
\* search finds every live pair and nothing else
DeleteOfLeafKeys ==
    [][(/\ last'.op = "delete"
        /\ \A key \in TreeKeys : BTreeSearch(tables, key) = hist.live[key]
        /\ \E node \in NodesBelow(tables.root) :
               node.leaf /\ ListContains(node.keys, last'.key))
           => /\ last'.found <=> last'.stored
              /\ \A key \in TreeKeys \ {last'.key} :
                     BTreeSearch(tables', key) = BTreeSearch(tables, key)
              /\ ~last'.found => tables' = tables]_vars

(***************************************************************************)
(* Properties of UPDATE and DELETE.                                        *)
(***************************************************************************)
\* the WHERE predicate of the statement on each row of table l as the table
\* is before the statement: [err, value] per row
WhereOfRows(stmt) ==
    [i \in 1..Len(tables["l"].rows) |->
        IF stmt.where = NoExpr THEN [err |-> NoError, value |-> TRUE]
        ELSE _evaluate_where(stmt.where, Prefixed("l", tables["l"].rows[i]), <<"l">>)]

\* what the statement has to make of table l when it acts on exactly the
\* rows whose WHERE was truthy
MutatedRows(op, wheres) ==
    IF op = "DELETE"
    THEN LET kept == {i \in 1..Len(wheres) : ~wheres[i].value}
             Place[i \in 0..Len(wheres)] ==
                 IF i = 0 THEN <<>>
                 ELSE IF i \in kept THEN Append(Place[i - 1], tables["l"].rows[i])
                 ELSE Place[i - 1]
         IN  Place[Len(wheres)]
    ELSE [i \in 1..Len(wheres) |->
             IF wheres[i].value THEN [tables["l"].rows[i] EXCEPT !.data["v"] = TextV("b")]
             ELSE tables["l"].rows[i]]

SelectsFirst(op, wheres) ==
    IF \E i \in 1..Len(wheres) : wheres[i].err # NoError
    THEN /\ last'.err # NoError
         /\ tables' = tables
    ELSE /\ last'.err = NoError
         /\ last'.affected_rows = Cardinality({i \in 1..Len(wheres) : wheres[i].value})
         /\ tables'["l"].rows = MutatedRows(op, wheres)

\* C25: UPDATE and DELETE evaluate the WHERE predicate of every row on the
\* table as it is before the statement and collect the matching rows before
\* they change any row: a predicate that raises leaves the table as it was,
\* and otherwise exactly the rows whose WHERE was truthy are updated or
\* deleted and affected_rows is their number.
SelectBeforeMutate ==
    [][last'.op \in {"UPDATE", "DELETE"}
           => SelectsFirst(last'.op, WhereOfRows(last'.stmt))]_vars

\* the same of DELETE alone
DeleteSelectsFirst ==
    [][last'.op = "DELETE" => SelectsFirst("DELETE", WhereOfRows(last'.stmt))]_vars

\* and of the UPDATE statements whose WHERE raises on no row
UpdateOfTotalWheres ==
    [][(/\ last'.op = "UPDATE"
        /\ \A i \in 1..Len(tables["l"].rows) :
               WhereOfRows(last'.stmt)[i].err = NoError)
           => SelectsFirst("UPDATE", WhereOfRows(last'.stmt))]_vars


(***************************************************************************)
(* Properties of Table.update.                                             *)
(***************************************************************************)
\* C26: a Table.update of an existing row that raises (NotNullViolation,
\* DataTypeError, PrimaryKeyViolation, UniqueViolation or ColumnNotFound for
\* any supplied column) has changed no column of the row, no unique-value
\* set and no index, also when other supplied columns were valid; a
\* Table.update of a missing row_id returns no row, raises nothing and
\* changes nothing.
UpdateValidatesBeforeApply ==
    [][last'.op = "update"
          => /\ last'.err # NoError
                 => /\ tables' = tables
                    /\ last'.row_id \in RowIds(tables["t"])
                    /\ last'.err.kind \in {"NotNullViolation", "DataTypeError",
                                           "PrimaryKeyViolation", "UniqueViolation",
                                           "ColumnNotFound"}
             /\ last'.row_id \notin RowIds(tables["t"])
                 => /\ ~last'.found
                    /\ last'.err = NoError
                    /\ tables' = tables]_vars

\* an update of a live row rejected for its NOT NULL name, in a table whose
\* other rows leave the key 2 of the same update free
UpdateRejectedWitness ==
    /\ last.op = "update"
    /\ last.found
    /\ last.err = Error("NotNullViolation", "name")
    /\ ~InUnique(tables["t"], "id", IntV(2))


(***************************************************************************)
(* Reads: one SELECT, and the same SELECT once more, run against the       *)
(* tables l and r.                                                         *)
(***************************************************************************)
\* SELECT * FROM zz; SELECT zz.* FROM l; SELECT * FROM l WHERE id = 1 OR v < 1;
\* SELECT * FROM l ORDER BY v DESC LIMIT 1 OFFSET 1; SELECT 1 = 1
OtherSelects ==
    {SelectStmt(StarList, FromClause(TableRef("zz", ""), <<>>), NoExpr, <<>>, <<>>, <<>>),
     SelectStmt(<<StarExpr("zz")>>, FromClause(TableRef("l", ""), <<>>), NoExpr, <<>>,
                <<>>, <<>>),
     SelectFromL(TypedWhere, <<>>, <<>>, <<>>),
     SelectFromL(NoExpr, <<Desc("v")>>, <<1>>, <<1>>),
     SelectExpr(BinaryExpr(Literal(IntV(1)), "EQ", Literal(IntV(1))))}

ReadSelects == JoinSelects \cup ResolveSelects \cup OtherSelects

ReadSelect ==
    /\ last = NoCall
    /\ \E stmt \in ReadSelects : Select(stmt, execute_select(Db, stmt))

\* the statement of the SELECT just made, executed once more
Repeated(stmt, r) ==
    /\ catalog' = r.db.catalog
    /\ tables' = r.db.tables
    /\ last' = [Queried(stmt, r) EXCEPT !.op = "SELECT again"]
    /\ UNCHANGED hist

ReadAgain ==
    /\ last.op = "SELECT"
    /\ Repeated(last.stmt, execute_select(Db, last.stmt))

NextRead == ReadSelect \/ ReadAgain

SpecRead == InitJoin /\ [][NextRead]_vars

NewParser(types) == [tokens |-> Append(types, "EOF"), pos |-> 0]

\* Parser.current
current(p) ==
    IF p.pos >= Len(p.tokens) THEN p.tokens[Len(p.tokens)] ELSE p.tokens[p.pos + 1]

\* Parser.advance
advance(p) == [p EXCEPT !.pos = IF @ < Len(p.tokens) - 1 THEN @ + 1 ELSE @]

ParseResult(err, p, value) == [err |-> err, p |-> p, value |-> value]

\* raise SQLSyntaxError at the current token
SyntaxError(p) == ParseResult(Error("SQLSyntaxError", current(p)), p, NoExpr)

\* Parser.expect
expect(p, token_type) ==
    IF current(p) # token_type THEN SyntaxError(p)
    ELSE ParseResult(NoError, advance(p), NoExpr)

\* Parser.consume_if
consume_if(p, token_type) == IF current(p) = token_type THEN advance(p) ELSE p

\* Parser.parse_primary
parse_primary(p) ==
    IF current(p) = "NUMBER" THEN ParseResult(NoError, advance(p), Literal(IntV(1)))
    ELSE IF current(p) = "IDENTIFIER"
    THEN ParseResult(NoError, advance(p), ColumnRef("", "l"))
    ELSE SyntaxError(p)

\* Parser.parse_select_column
parse_select_column(p) ==
    IF current(p) = "STAR" THEN ParseResult(NoError, advance(p), StarExpr(""))
    ELSE IF current(p) = "IDENTIFIER"
    THEN ParseResult(NoError, advance(p), ColumnRef("", "l"))
    ELSE parse_primary(p)

\* Parser.parse_table_ref: a second IDENTIFIER is the alias
parse_table_ref(p) ==
    LET Named(r) ==
            IF r.err # NoError THEN r
            ELSE IF current(r.p) = "IDENTIFIER"
            THEN ParseResult(NoError, advance(r.p), TableRef("l", "l"))
            ELSE ParseResult(NoError, r.p, TableRef("l", ""))
    IN  Named(expect(p, "IDENTIFIER"))

\* Parser.parse_from_clause
parse_from_clause(p) ==
    LET Tabled(r) ==
            IF r.err # NoError THEN r
            ELSE ParseResult(NoError, r.p, FromClause(r.value, <<>>))
        Opened(r) == IF r.err # NoError THEN r ELSE Tabled(parse_table_ref(r.p))
    IN  Opened(expect(p, "FROM"))

\* Parser.parse_select: the column, then FROM, LIMIT and OFFSET in this
\* order, each optional
parse_select(p) ==
    LET Count == <<ParseCount(IntV(1))>>
        Offset(columns, from_clause, limit, r) ==
            IF r.err # NoError THEN r
            ELSE ParseResult(NoError, r.p,
                             SelectStmt(columns, from_clause, NoExpr, <<>>, limit, Count))
        Limit(columns, from_clause, limit, q) ==
            IF current(q) = "OFFSET"
            THEN Offset(columns, from_clause, limit, expect(advance(q), "NUMBER"))
            ELSE ParseResult(NoError, q,
                             SelectStmt(columns, from_clause, NoExpr, <<>>, limit, <<>>))
        Counted(columns, from_clause, r) ==
            IF r.err # NoError THEN r ELSE Limit(columns, from_clause, Count, r.p)
        From(columns, r) ==
            IF r.err # NoError THEN r
            ELSE IF current(r.p) = "LIMIT"
            THEN Counted(columns, r.value, expect(advance(r.p), "NUMBER"))
            ELSE Limit(columns, r.value, <<>>, r.p)
        Columns(r) ==
            IF r.err # NoError THEN r
            ELSE From(<<r.value>>,
                      IF current(r.p) = "FROM" THEN parse_from_clause(r.p)
                      ELSE ParseResult(NoError, r.p, NoFrom))
        Started(r) == IF r.err # NoError THEN r ELSE Columns(parse_select_column(r.p))
    IN  Started(expect(p, "SELECT"))

\* Parser.parse_delete, without a WHERE clause
parse_delete(p) ==
    LET Named(r) ==
            IF r.err # NoError THEN r
            ELSE ParseResult(NoError, r.p, DeleteStmt("l", NoExpr))
        Opened(r) == IF r.err # NoError THEN r ELSE Named(expect(r.p, "IDENTIFIER"))
        Started(r) == IF r.err # NoError THEN r ELSE Opened(expect(r.p, "FROM"))
    IN  Started(expect(p, "DELETE"))

\* Parser.parse_statement
parse_statement(p) ==
    IF current(p) = "SELECT" THEN parse_select(p)
    ELSE IF current(p) = "DELETE" THEN parse_delete(p)
    ELSE SyntaxError(p)

\* Parser.parse: one statement and its optional semicolon
ParserParse(p) ==
    LET Ended(r) ==
            IF r.err # NoError THEN r
            ELSE ParseResult(NoError, consume_if(r.p, "SEMICOLON"), r.value)
    IN  Ended(parse_statement(p))

\* parse(sql), for the sql the lexer turns into these tokens
parse(types) == ParserParse(NewParser(types))

(***************************************************************************)
(* Parsing: one call of parse on a text of up to MaxTokens tokens.         *)
(***************************************************************************)
TokenTypes ==
    {"SELECT", "DELETE", "STAR", "IDENTIFIER", "NUMBER", "FROM", "LIMIT", "OFFSET",
     "SEMICOLON"}

\* the text handed to parse, as the token types the lexer makes of it
Text(types) ==
    /\ catalog = EmptyMap
    /\ tables = EmptyMap
    /\ hist = EmptyMap
    /\ last = [op |-> "text", tokens |-> types]

InitParse == \E types \in SeqsUpTo(TokenTypes, MaxTokens) : Text(types)

\* the call of parse: what it raised, the statement it returned and the
\* token it stopped at
ParseText ==
    LET Returned(r) ==
            last' = [op |-> "parse", tokens |-> r.p.tokens, err |-> r.err,
                     stmt |-> r.value, stopped_at |-> current(r.p)]
    IN  /\ last.op = "text"
        /\ Returned(parse(last.tokens))
        /\ UNCHANGED <<catalog, tables, hist>>

NextParse == ParseText

SpecParse == InitParse /\ [][NextParse]_vars

\* C30: parse returns a statement only if that statement and its optional
\* trailing semicolon have consumed every token up to EOF; a token left
\* over after a complete statement raises SQLSyntaxError.
WholeStatementsOnly ==
    (last.op = "parse" /\ last.err = NoError) => last.stopped_at = "EOF"

\* what parse does keep to: it raises nothing but SQLSyntaxError, and a
\* statement it returns is followed by at most one semicolon it consumed
\* and then by the tokens it left unread
StatementThenRest ==
    last.op = "parse"
        => /\ last.err.kind \in {"none", "SQLSyntaxError"}
           /\ last.err = NoError
                => \E n \in 1..Len(last.tokens) :
                      /\ parse(SubSeq(last.tokens, 1, n - 1)).err = NoError
                      /\ parse(SubSeq(last.tokens, 1, n - 1)).value = last.stmt
                      /\ last.stopped_at = last.tokens[n]

====
